---- MODULE Spec2Model ----
(***************************************************************************)
(* A model of the smartboard drawing surface: the canvas object sequence,  *)
(* the toolbar (src/src/app.rs, App::render_toolbar), the pointer-driven    *)
(* interaction engine (App::render_canvas) and the stroke utilities        *)
(* (src/src/utils.rs, AppUtils).                                           *)
(*                                                                         *)
(* Numbers.  Positions are whole pixels <<x, y>>.  Widths (brush width,    *)
(* per-point stroke widths) are in tenths of a pixel, so 30 is the         *)
(* source's 3.0.  The interpolation frequency is in tenths (3 is 0.3).     *)
(* Times are milliseconds.  Where the source divides f32 values the model  *)
(* divides integers and rounds down.  Option<T> is a sequence: << >> is    *)
(* None and <<x>> is Some(x).  Indices into canvas_objects are 1-based     *)
(* (index i of the source is i + 1 here).                                  *)
(***************************************************************************)
EXTENDS Integers, Sequences, FiniteSets, TLC

VARIABLES
    canvas_objects,            \* AppState.canvas_objects
    active_strokes,            \* AppState.active_strokes (touch id -> ActiveStroke)
    is_drawing,                \* AppState.is_drawing
    brush_color,               \* AppState.brush_color
    brush_width,               \* AppState.brush_width (tenths)
    dynamic_brush_width_mode,  \* AppState.dynamic_brush_width_mode
    stroke_smoothing,          \* AppState.stroke_smoothing
    interpolation_frequency,   \* AppState.interpolation_frequency (tenths)
    current_tool,              \* AppState.current_tool
    eraser_size,               \* AppState.eraser_size (pixels)
    selected_object,           \* AppState.selected_object
    drag_start_pos,            \* AppState.drag_start_pos
    resize_anchor_hovered,     \* AppState.resize_anchor_hovered
    rotation_anchor_hovered,   \* AppState.rotation_anchor_hovered
    resize_operation,          \* AppState.resize_operation
    rotation_operation,        \* AppState.rotation_operation
    gesture,                   \* the pointer gesture: its phase and press position
    last                       \* history: the event of the last frame and what it found

engine == <<canvas_objects, active_strokes, is_drawing, brush_color, brush_width,
            dynamic_brush_width_mode, stroke_smoothing, interpolation_frequency,
            current_tool, eraser_size, selected_object, drag_start_pos,
            resize_anchor_hovered, rotation_anchor_hovered, resize_operation,
            rotation_operation>>

vars == <<canvas_objects, active_strokes, is_drawing, brush_color, brush_width,
          dynamic_brush_width_mode, stroke_smoothing, interpolation_frequency,
          current_tool, eraser_size, selected_object, drag_start_pos,
          resize_anchor_hovered, rotation_anchor_hovered, resize_operation,
          rotation_operation, gesture, last>>

(***************************************************************************)
(* Bounds of the model.                                                    *)
(***************************************************************************)
MaxObjects == 4        \* canvas_objects never grows past this many objects
MaxStrokePoints == 3   \* an ActiveStroke never grows past this many samples
MaxExtent == 400       \* no image side, font size or shape size grows past this
MaxRotation == 180     \* no shape is turned further than this many degrees

(***************************************************************************)
(* Input sets.                                                             *)
(***************************************************************************)
None == << >>
Some(x) == <<x>>

CanvasTool == {"Select", "Brush", "ObjectEraser", "PixelEraser", "Insert", "Settings"}
DynamicBrushWidthMode == {"Disabled", "BrushTip", "SpeedBased"}
CanvasShapeType == {"Line", "Arrow", "Rectangle", "Triangle", "Circle"}
ResizeAnchor == {"Top", "Bottom", "Left", "Right",
                 "TopLeft", "TopRight", "BottomLeft", "BottomRight"}

Colors == {"WHITE", "RED"}
BrushWidths == {30, 50}
EraserSizes == {10, 20}
InterpolationFrequencies == {0, 3}

(***************************************************************************)
(* Arithmetic helpers.                                                     *)
(***************************************************************************)
Abs(x) == IF x < 0 THEN -x ELSE x
Min(a, b) == IF a <= b THEN a ELSE b
Max(a, b) == IF a >= b THEN a ELSE b
Last(s) == s[Len(s)]

RECURSIVE SqrtSearch(_, _, _)
SqrtSearch(n, lo, hi) ==
    IF lo = hi THEN lo
    ELSE LET mid == (lo + hi + 1) \div 2
         IN  IF mid * mid <= n THEN SqrtSearch(n, mid, hi)
                               ELSE SqrtSearch(n, lo, mid - 1)

\* floor(sqrt(n)) for 0 <= n < 2^31
ISqrt(n) ==
    IF n < 1024 THEN SqrtSearch(n, 0, 31)
    ELSE IF n < 1048576 THEN SqrtSearch(n, 32, 1023)
    ELSE SqrtSearch(n, 1024, 46340)

\* Pos2 arithmetic
DistSq(p, q) == (p[1] - q[1]) * (p[1] - q[1]) + (p[2] - q[2]) * (p[2] - q[2])
\* Pos2::distance in hundredths of a pixel, rounded down (past 400 pixels: in
\* tenths, so that the square fits 32 bits)
Distance100(p, q) ==
    IF DistSq(p, q) <= 160000 THEN ISqrt(DistSq(p, q) * 10000)
    ELSE 10 * ISqrt(DistSq(p, q) * 100)
PosAdd(p, d) == <<p[1] + d[1], p[2] + d[2]>>
PosSub(p, q) == <<p[1] - q[1], p[2] - q[2]>>

\* egui::Rect
RectFromMinMax(mn, mx) == [min |-> mn, max |-> mx]
RectFromMinSize(pos, size) == [min |-> pos, max |-> PosAdd(pos, size)]
RectSize(r) == PosSub(r.max, r.min)
RectContains(r, p) ==
    /\ r.min[1] <= p[1] /\ p[1] <= r.max[1]
    /\ r.min[2] <= p[2] /\ p[2] <= r.max[2]
\* twice the centre, so that a half pixel is not lost
RectCenter2(r) == <<r.min[1] + r.max[1], r.min[2] + r.max[2]>>

(***************************************************************************)
(* AppUtils (src/src/utils.rs).                                            *)
(***************************************************************************)

\* the distance to the first endpoint, whatever the segment
DistanceToStart(p, a, b) == <<DistSq(p, a), 1>>

\* The square of the distance from p to the segment a-b, as a fraction
\* <<numerator, denominator>>: the closest point is a (t clamped to 0), b (t
\* clamped to 1) or the foot of the perpendicular, whose squared distance is
\* cross^2 / |ab|^2.
point_to_line_segment_distance(p, a, b) ==
    LET ab == PosSub(b, a)
        ap == PosSub(p, a)
        ab_sq == ab[1] * ab[1] + ab[2] * ab[2]
        dot == ap[1] * ab[1] + ap[2] * ab[2]
        cross == ap[1] * ab[2] - ap[2] * ab[1]
    IN  IF ab_sq = 0 THEN <<DistSq(p, a), 1>>
        ELSE IF dot <= 0 THEN <<DistSq(p, a), 1>>
        ELSE IF dot >= ab_sq THEN <<DistSq(p, b), 1>>
        ELSE <<cross * cross, ab_sq>>

\* dist <= eraser_size / 2 + width / 2, for dist^2 = d2[1] / d2[2], eraser_size
\* in pixels and width in tenths: 400 * d2[1] <= (10 * eraser_size + width)^2 * d2[2]
WithinReach(d2, size, width) ==
    LET k == 10 * size + width
    IN  d2[1] <= (k * k * d2[2]) \div 400

\* the width of segment i (1-based) in point_intersects_stroke
HitSegmentWidth(widths, i) ==
    IF i <= Len(widths)
    THEN Max(widths[i], IF i + 1 <= Len(widths) THEN widths[i + 1] ELSE widths[i])
    ELSE widths[1]

point_intersects_stroke(pos, stroke, size) ==
    \E i \in 1..(Len(stroke.points) - 1) :
        WithinReach(point_to_line_segment_distance(pos, stroke.points[i],
                                                   stroke.points[i + 1]),
                    size, HitSegmentWidth(stroke.widths, i))

\* point_intersects_stroke panics on these strokes: points.len() - 1
\* underflows on no points (and points[0] is out of bounds where the
\* subtraction wraps), widths[0] is out of bounds on no widths
PointIntersectsPanics(stroke) ==
    \/ Len(stroke.points) = 0
    \/ Len(stroke.points) >= 2 /\ Len(stroke.widths) = 0

\* what a call of point_intersects_stroke comes to: Some(the value it
\* returns), or None when it panics
point_intersects_stroke_outcome(pos, stroke, size) ==
    IF PointIntersectsPanics(stroke) THEN None
    ELSE Some(point_intersects_stroke(pos, stroke, size))

\* a width that follows the speed in every mode
SpeedWidth(base_width, mode, point_index, total_points, speed) ==
    IF speed # None THEN (base_width * (750 - Min(speed[1], 500))) \div 500
    ELSE base_width

\* speed is an Option: None, or Some(pixels per second)
calculate_dynamic_width(base_width, mode, point_index, total_points, speed) ==
    CASE mode = "Disabled" -> base_width
      [] mode = "BrushTip" ->
            LET total == Max(total_points, 1)
            IN  IF 10 * point_index > 7 * total
                THEN (base_width * (24 * total - 20 * point_index)) \div (10 * total)
                ELSE base_width
      [] mode = "SpeedBased" ->
            IF speed # None
            THEN (base_width * (750 - Min(speed[1], 500))) \div 500
            ELSE base_width

\* a count of inserted points that is one too many
NumInterpolationsUp(p1, p2, frequency) ==
    ISqrt((DistSq(p1, p2) * frequency * frequency) \div 100) + 1

\* num_interpolations of the segment p1-p2: (distance * frequency) as usize
NumInterpolations(p1, p2, frequency) ==
    ISqrt((DistSq(p1, p2) * frequency * frequency) \div 100)

\* the points pushed for segment i: p1 and the num points inserted after it
InterpolatedSegmentPoints(points, i, num) ==
    LET p1 == points[i]
        p2 == points[i + 1]
        pushed == [j \in 1..(num + 1) |->
                     IF j = 1 THEN p1
                     ELSE <<p1[1] + ((j - 1) * (p2[1] - p1[1])) \div (num + 1),
                            p1[2] + ((j - 1) * (p2[2] - p1[2])) \div (num + 1)>>]
    IN  SubSeq(pushed, 1, num + 1)

\* the widths pushed with them
InterpolatedSegmentWidths(widths, i, num) ==
    LET width1 == IF i <= Len(widths) THEN widths[i] ELSE widths[1]
        width2 == IF i + 1 <= Len(widths) THEN widths[i + 1] ELSE widths[Len(widths)]
        pushed == [j \in 1..(num + 1) |->
                     IF j = 1 THEN width1
                     ELSE width1 + ((j - 1) * (width2 - width1)) \div (num + 1)]
    IN  SubSeq(pushed, 1, num + 1)

\* the loop over the segments from segment i on, as <<points, widths>>
RECURSIVE InterpolateFrom(_, _, _, _)
InterpolateFrom(points, widths, i, frequency) ==
    IF i > Len(points) - 1 THEN <<<< >>, << >>>>
    ELSE LET num == NumInterpolations(points[i], points[i + 1], frequency)
             rest == InterpolateFrom(points, widths, i + 1, frequency)
         IN  <<InterpolatedSegmentPoints(points, i, num) \o rest[1],
               InterpolatedSegmentWidths(widths, i, num) \o rest[2]>>

\* an interpolation that lets every frequency but 0 through to the loop
InterpolatedByMagnitude(points, widths, frequency) ==
    IF Len(points) < 2 \/ frequency = 0 THEN <<points, widths>>
    ELSE LET interpolated == InterpolateFrom(points, widths, 1, frequency)
         IN  <<interpolated[1] \o <<Last(points)>>,
               interpolated[2] \o (IF widths # << >> THEN <<Last(widths)>> ELSE << >>)>>

\* returns <<points, widths>>
apply_point_interpolation(points, widths, frequency) ==
    IF Len(points) < 2 \/ frequency <= 0 THEN <<points, widths>>
    ELSE LET interpolated == InterpolateFrom(points, widths, 1, frequency)
         IN  <<interpolated[1] \o <<Last(points)>>,
               interpolated[2] \o (IF widths # << >> THEN <<Last(widths)>> ELSE << >>)>>

\* stage 1 of apply_stroke_smoothing: acc_dist in hundredths of a pixel,
\* target_spacing 2.0
RECURSIVE ResampleFrom(_, _, _, _)
ResampleFrom(points, i, acc_dist, resampled) ==
    IF i > Len(points) THEN resampled
    ELSE LET acc == acc_dist + Distance100(points[i - 1], points[i])
         IN  IF acc >= 200
             THEN ResampleFrom(points, i + 1, 0, Append(resampled, points[i]))
             ELSE ResampleFrom(points, i + 1, acc, resampled)

Resample(points) == ResampleFrom(points, 2, 0, <<points[1]>>)

\* stage 2: one iteration of Chaikin corner cutting
ChaikinIteration(smoothed) ==
    LET n == Len(smoothed)
        new_points ==
          [k \in 1..(2 * n) |->
            IF k = 1 THEN smoothed[1]
            ELSE IF k = 2 * n THEN smoothed[n]
            ELSE LET i == k \div 2
                     p0 == smoothed[i]
                     p1 == smoothed[i + 1]
                 IN  IF k % 2 = 0
                     THEN <<(3 * p0[1] + p1[1]) \div 4, (3 * p0[2] + p1[2]) \div 4>>
                     ELSE <<(p0[1] + 3 * p1[1]) \div 4, (p0[2] + 3 * p1[2]) \div 4>>]
    IN  SubSeq(new_points, 1, 2 * n)

\* stage 3: 3-point moving average over the interior points
MovingAverage(smoothed) ==
    LET final_points ==
          [i \in 1..Len(smoothed) |->
            IF i = 1 \/ i = Len(smoothed) THEN smoothed[i]
            ELSE <<(smoothed[i - 1][1] + smoothed[i][1] + smoothed[i + 1][1]) \div 3,
                   (smoothed[i - 1][2] + smoothed[i][2] + smoothed[i + 1][2]) \div 3>>]
    IN  SubSeq(final_points, 1, Len(smoothed))

\* a smoothing with one iteration of corner cutting
SmoothedOnce(points) ==
    IF Len(points) < 3 THEN points
    ELSE LET resampled == Resample(points)
         IN  IF Len(resampled) < 3 THEN resampled
             ELSE MovingAverage(ChaikinIteration(resampled))

apply_stroke_smoothing(points) ==
    IF Len(points) < 3 THEN points
    ELSE LET resampled == Resample(points)
         IN  IF Len(resampled) < 3 THEN resampled
             ELSE LET first == ChaikinIteration(resampled)
                      second == ChaikinIteration(first)
                  IN  MovingAverage(second)

calculate_shape_bounding_box(shape) ==
    LET x == shape.pos[1]
        y == shape.pos[2]
    IN  CASE shape.shape_type = "Line" ->
                RectFromMinMax(<<Min(x, x + shape.size) - 5, y - 5>>,
                               <<Max(x, x + shape.size) + 5, y + 5>>)
          [] shape.shape_type = "Arrow" ->
                RectFromMinMax(<<Min(x, x + shape.size) - 5, y - 15>>,
                               <<Max(x, x + shape.size) + 5, y + 15>>)
          [] shape.shape_type = "Rectangle" ->
                RectFromMinSize(shape.pos, <<shape.size, shape.size>>)
          [] shape.shape_type = "Triangle" ->
                RectFromMinMax(<<x - 5, y - 5>>,
                               <<x + shape.size + 5, y + shape.size \div 2 + 5>>)
          [] shape.shape_type = "Circle" ->
                RectFromMinMax(<<x - shape.size \div 2 - 5, y - shape.size \div 2 - 5>>,
                               <<x + shape.size \div 2 + 5, y + shape.size \div 2 + 5>>)

(***************************************************************************)
(* Canvas objects (src/src/state.rs).                                      *)
(***************************************************************************)
CanvasStroke(points, widths, color, base_width) ==
    [type |-> "Stroke", points |-> points, widths |-> widths, color |-> color,
     base_width |-> base_width]

\* aspect_ratio is the fraction <<width, height>> of the decoded picture
CanvasImage(pos, size, aspect_ratio) ==
    [type |-> "Image", pos |-> pos, size |-> size, aspect_ratio |-> aspect_ratio,
     marked_for_deletion |-> FALSE]

CanvasText(text, pos, color, font_size) ==
    [type |-> "Text", text |-> text, pos |-> pos, color |-> color,
     font_size |-> font_size]

\* rotation is in degrees
CanvasShape(shape_type, pos, size, color, rotation) ==
    [type |-> "Shape", shape_type |-> shape_type, pos |-> pos, size |-> size,
     color |-> color, rotation |-> rotation]

ActiveStroke(points, widths, times) ==
    [points |-> points, widths |-> widths, times |-> times]

ResizeOperation(anchor, start_pos, start_size, start_object_pos) ==
    [anchor |-> anchor, start_pos |-> start_pos, start_size |-> start_size,
     start_object_pos |-> start_object_pos]

RotationOperation(start_pos, start_angle, center) ==
    [start_pos |-> start_pos, start_angle |-> start_angle, center |-> center]

\* the size of the galley painter.layout_no_wrap lays the text out in: one line,
\* as high as the font size, 3 font sizes wide
TextGalleySize(text) == <<3 * text.font_size, text.font_size>>

\* the rectangle the Select tool and the object eraser test an object with;
\* None for a Stroke
ObjectRect(object) ==
    CASE object.type = "Image" -> Some(RectFromMinSize(object.pos, object.size))
      [] object.type = "Text" -> Some(RectFromMinSize(object.pos, TextGalleySize(object)))
      [] object.type = "Shape" -> Some(calculate_shape_bounding_box(object))
      [] object.type = "Stroke" -> None

(***************************************************************************)
(* AppState::default (src/src/state.rs).                                   *)
(***************************************************************************)
\* the phases of a pointer gesture on the canvas widget (Sense::click_and_drag)
Idle == [phase |-> "idle", pos |-> None]
Pressed(pos) == [phase |-> "pressed", pos |-> Some(pos)]
Dragging == [phase |-> "dragging", pos |-> None]

EraserTools == {"ObjectEraser", "PixelEraser"}

\* an eraser is the current tool
Erasing == current_tool \in EraserTools

\* the history record of a frame: the event and the state the frame found; the
\* pointer position is kept for the frames of the erasers
Event(kind, pos) ==
    [kind |-> kind, pos |-> IF Erasing THEN pos ELSE None, tool |-> current_tool,
     sel |-> selected_object, nobj |-> Len(canvas_objects)]

Init ==
    /\ canvas_objects = << >>
    /\ active_strokes = << >>
    /\ is_drawing = FALSE
    /\ brush_color = "WHITE"
    /\ brush_width = 30
    /\ dynamic_brush_width_mode = "Disabled"
    /\ stroke_smoothing = TRUE
    /\ interpolation_frequency = 3
    /\ current_tool = "Brush"
    /\ eraser_size = 10
    /\ selected_object = None
    /\ drag_start_pos = None
    /\ resize_anchor_hovered = None
    /\ rotation_anchor_hovered = FALSE
    /\ resize_operation = None
    /\ rotation_operation = None
    /\ gesture = Idle
    /\ last = [kind |-> "init", pos |-> None, tool |-> "Brush", sel |-> None, nobj |-> 0]

(***************************************************************************)
(* App::render_toolbar (src/src/app.rs).                                   *)
(***************************************************************************)

\* a tool change that keeps the selection
SelectToolKeepingSelection(tool) ==
    /\ tool # current_tool
    /\ current_tool' = tool
    /\ last' = Event("tool", None)
    /\ UNCHANGED <<canvas_objects, active_strokes, is_drawing, brush_color, brush_width,
                   dynamic_brush_width_mode, stroke_smoothing, interpolation_frequency,
                   eraser_size, selected_object, drag_start_pos, resize_anchor_hovered,
                   rotation_anchor_hovered, resize_operation, rotation_operation,
                   gesture>>

\* a tool change that clears the selection unless an eraser is picked
SelectToolKeepingForErasers(tool) ==
    /\ tool # current_tool
    /\ current_tool' = tool
    /\ selected_object' = IF tool \in {"ObjectEraser", "PixelEraser"}
                          THEN selected_object ELSE None
    /\ last' = Event("tool", None)
    /\ UNCHANGED <<canvas_objects, active_strokes, is_drawing, brush_color, brush_width,
                   dynamic_brush_width_mode, stroke_smoothing, interpolation_frequency,
                   eraser_size, drag_start_pos, resize_anchor_hovered,
                   rotation_anchor_hovered, resize_operation, rotation_operation,
                   gesture>>

\* a tool's selectable_value changed
SelectTool(tool) ==
    /\ tool # current_tool
    /\ current_tool' = tool
    /\ selected_object' = None
    /\ last' = Event("tool", None)
    /\ UNCHANGED <<canvas_objects, active_strokes, is_drawing, brush_color, brush_width,
                   dynamic_brush_width_mode, stroke_smoothing, interpolation_frequency,
                   eraser_size, drag_start_pos, resize_anchor_hovered,
                   rotation_anchor_hovered, resize_operation, rotation_operation,
                   gesture>>

\* the strokes a drain of active_strokes commits: those with more than one point
DrainedStrokes(color) ==
    IF 0 \in DOMAIN active_strokes /\ Len(active_strokes[0].points) > 1
    THEN <<CanvasStroke(active_strokes[0].points, active_strokes[0].widths, color,
                        brush_width)>>
    ELSE << >>

\* a colour change that drains the active strokes and leaves is_drawing set
ChangeBrushColorStillDrawing(color) ==
    /\ current_tool = "Brush"
    /\ color # brush_color
    /\ brush_color' = color
    /\ IF is_drawing
       THEN /\ Len(canvas_objects) + Len(DrainedStrokes(brush_color)) <= MaxObjects
            /\ canvas_objects' = canvas_objects \o DrainedStrokes(brush_color)
            /\ active_strokes' = << >>
            /\ UNCHANGED is_drawing
       ELSE UNCHANGED <<canvas_objects, active_strokes, is_drawing>>
    /\ last' = Event("color", None)
    /\ UNCHANGED <<brush_width, dynamic_brush_width_mode, stroke_smoothing,
                   interpolation_frequency, current_tool, eraser_size, selected_object,
                   drag_start_pos, resize_anchor_hovered, rotation_anchor_hovered,
                   resize_operation, rotation_operation, gesture>>

\* the colour edit button changed the brush colour
ChangeBrushColor(color) ==
    /\ current_tool = "Brush"
    /\ color # brush_color
    /\ brush_color' = color
    /\ IF is_drawing
       THEN /\ Len(canvas_objects) + Len(DrainedStrokes(brush_color)) <= MaxObjects
            /\ canvas_objects' = canvas_objects \o DrainedStrokes(brush_color)
            /\ active_strokes' = << >>
            /\ is_drawing' = FALSE
       ELSE UNCHANGED <<canvas_objects, active_strokes, is_drawing>>
    /\ last' = Event("color", None)
    /\ UNCHANGED <<brush_width, dynamic_brush_width_mode, stroke_smoothing,
                   interpolation_frequency, current_tool, eraser_size, selected_object,
                   drag_start_pos, resize_anchor_hovered, rotation_anchor_hovered,
                   resize_operation, rotation_operation, gesture>>

\* a quick colour button
QuickColor(color) ==
    /\ current_tool = "Brush"
    /\ color # brush_color
    /\ brush_color' = color
    /\ last' = Event("quick_color", None)
    /\ UNCHANGED <<canvas_objects, active_strokes, is_drawing, brush_width,
                   dynamic_brush_width_mode, stroke_smoothing, interpolation_frequency,
                   current_tool, eraser_size, selected_object, drag_start_pos,
                   resize_anchor_hovered, rotation_anchor_hovered, resize_operation,
                   rotation_operation, gesture>>

\* the width slider or a quick width button
SetBrushWidth(width) ==
    /\ current_tool = "Brush"
    /\ width # brush_width
    /\ brush_width' = width
    /\ last' = Event("width", None)
    /\ UNCHANGED <<canvas_objects, active_strokes, is_drawing, brush_color,
                   dynamic_brush_width_mode, stroke_smoothing, interpolation_frequency,
                   current_tool, eraser_size, selected_object, drag_start_pos,
                   resize_anchor_hovered, rotation_anchor_hovered, resize_operation,
                   rotation_operation, gesture>>

SetDynamicBrushWidthMode(mode) ==
    /\ current_tool = "Brush"
    /\ mode # dynamic_brush_width_mode
    /\ dynamic_brush_width_mode' = mode
    /\ last' = Event("mode", None)
    /\ UNCHANGED <<canvas_objects, active_strokes, is_drawing, brush_color, brush_width,
                   stroke_smoothing, interpolation_frequency, current_tool, eraser_size,
                   selected_object, drag_start_pos, resize_anchor_hovered,
                   rotation_anchor_hovered, resize_operation, rotation_operation,
                   gesture>>

ToggleStrokeSmoothing ==
    /\ current_tool = "Brush"
    /\ stroke_smoothing' = ~stroke_smoothing
    /\ last' = Event("smoothing", None)
    /\ UNCHANGED <<canvas_objects, active_strokes, is_drawing, brush_color, brush_width,
                   dynamic_brush_width_mode, interpolation_frequency, current_tool,
                   eraser_size, selected_object, drag_start_pos, resize_anchor_hovered,
                   rotation_anchor_hovered, resize_operation, rotation_operation,
                   gesture>>

SetEraserSize(size) ==
    /\ current_tool \in {"ObjectEraser", "PixelEraser"}
    /\ size # eraser_size
    /\ eraser_size' = size
    /\ last' = Event("eraser_size", None)
    /\ UNCHANGED <<canvas_objects, active_strokes, is_drawing, brush_color, brush_width,
                   dynamic_brush_width_mode, stroke_smoothing, interpolation_frequency,
                   current_tool, selected_object, drag_start_pos, resize_anchor_hovered,
                   rotation_anchor_hovered, resize_operation, rotation_operation,
                   gesture>>

\* the clear-canvas button of the eraser tools
ClearCanvas ==
    /\ current_tool \in {"ObjectEraser", "PixelEraser"}
    /\ canvas_objects' = << >>
    /\ active_strokes' = << >>
    /\ is_drawing' = FALSE
    /\ selected_object' = None
    /\ current_tool' = "Brush"
    /\ last' = Event("clear", None)
    /\ UNCHANGED <<brush_color, brush_width, dynamic_brush_width_mode, stroke_smoothing,
                   interpolation_frequency, eraser_size, drag_start_pos,
                   resize_anchor_hovered, rotation_anchor_hovered, resize_operation,
                   rotation_operation, gesture>>

\* an insertion of the Insert tool: the object is appended
Insert(object) ==
    /\ current_tool = "Insert"
    /\ Len(canvas_objects) < MaxObjects
    /\ canvas_objects' = Append(canvas_objects, object)
    /\ last' = Event("insert", None)
    /\ UNCHANGED <<active_strokes, is_drawing, brush_color, brush_width,
                   dynamic_brush_width_mode, stroke_smoothing, interpolation_frequency,
                   current_tool, eraser_size, selected_object, drag_start_pos,
                   resize_anchor_hovered, rotation_anchor_hovered, resize_operation,
                   rotation_operation, gesture>>

\* a picture of aspect ratio aspect_ratio[1] : aspect_ratio[2], at width 300
InsertImage(aspect_ratio) ==
    Insert(CanvasImage(<<100, 100>>,
                       <<300, (300 * aspect_ratio[2]) \div aspect_ratio[1]>>,
                       aspect_ratio))

InsertText(text) == Insert(CanvasText(text, <<100, 100>>, "WHITE", 16))

InsertShape(shape_type) == Insert(CanvasShape(shape_type, <<100, 100>>, 100, "WHITE", 0))

SetInterpolationFrequency(frequency) ==
    /\ current_tool = "Settings"
    /\ frequency # interpolation_frequency
    /\ interpolation_frequency' = frequency
    /\ last' = Event("frequency", None)
    /\ UNCHANGED <<canvas_objects, active_strokes, is_drawing, brush_color, brush_width,
                   dynamic_brush_width_mode, stroke_smoothing, current_tool, eraser_size,
                   selected_object, drag_start_pos, resize_anchor_hovered,
                   rotation_anchor_hovered, resize_operation, rotation_operation,
                   gesture>>

(***************************************************************************)
(* App::render_canvas (src/src/app.rs): the pointer input of one frame.    *)
(* A response r is what egui reports of the canvas widget in the frame:    *)
(* r.pos is interact_pointer_pos(), r.drag_started, r.clicked, r.dragged,  *)
(* r.drag_stopped and r.hovered are the flags of the same names, and r.dt  *)
(* is the time since the last recorded sample of the stroke being drawn.   *)
(***************************************************************************)

\* the rectangle ui.allocate_exact_size gives the canvas
CanvasRect == RectFromMinMax(<<0, 0>>, <<800, 600>>)

\* ---- Brush ----

\* a sample block that pushes the point and the time but no width
AppendSampleWithoutWidth(active_stroke, pos, dt) ==
    IF active_stroke.points = << >> \/ DistSq(Last(active_stroke.points), pos) > 1
    THEN ActiveStroke(Append(active_stroke.points, pos), active_stroke.widths,
                      Append(active_stroke.times,
                             (IF active_stroke.times = << >> THEN 0
                              ELSE Last(active_stroke.times)) + dt))
    ELSE active_stroke

\* a sample block without the distance gate
AppendSampleAlways(active_stroke, pos, dt) ==
    LET current_time == (IF active_stroke.times = << >> THEN 0
                         ELSE Last(active_stroke.times)) + dt
    IN  ActiveStroke(Append(active_stroke.points, pos),
                     Append(active_stroke.widths, brush_width),
                     Append(active_stroke.times, current_time))

\* the sample block shared by the dragged branch and the hovered block
AppendSample(active_stroke, pos, dt) ==
    IF active_stroke.points = << >> \/ DistSq(Last(active_stroke.points), pos) > 1
    THEN LET current_time == (IF active_stroke.times = << >> THEN 0
                              ELSE Last(active_stroke.times)) + dt
             speed == IF Len(active_stroke.points) > 0 /\ Len(active_stroke.times) > 0
                      THEN Some((10 * Distance100(Last(active_stroke.points), pos))
                                    \div Max(dt, 1))
                      ELSE None
             points == Append(active_stroke.points, pos)
             width == calculate_dynamic_width(brush_width, dynamic_brush_width_mode,
                                              Len(points) - 1, Len(points), speed)
         IN  ActiveStroke(points, Append(active_stroke.widths, width),
                          Append(active_stroke.times, current_time))
    ELSE active_stroke

\* a commit test that takes every stroke with a point
HasPoint(active_stroke) == Len(active_stroke.points) >= 1

\* the test a finished ActiveStroke passes to be committed
IsCommitted(active_stroke) ==
    /\ Len(active_stroke.points) > 1
    /\ Len(active_stroke.widths) = Len(active_stroke.points)

\* the Stroke a finished ActiveStroke is committed as: << >> when it is declined
FinalizedStroke(active_stroke) ==
    IF IsCommitted(active_stroke)
    THEN LET final_points == IF stroke_smoothing
                             THEN apply_stroke_smoothing(active_stroke.points)
                             ELSE active_stroke.points
             interpolated == apply_point_interpolation(final_points, active_stroke.widths,
                                                       interpolation_frequency)
         IN  <<CanvasStroke(interpolated[1], interpolated[2], brush_color, brush_width)>>
    ELSE << >>

\* active_strokes and is_drawing after the drag_started / dragged / drag_stopped
\* chain, as <<active_strokes, is_drawing, strokes to push>>
BrushChain(r) ==
    IF r.drag_started
    THEN IF r.pos # None /\ RectContains(CanvasRect, r.pos[1])
         THEN <<(0 :> ActiveStroke(<<r.pos[1]>>,
                                   <<calculate_dynamic_width(brush_width,
                                        dynamic_brush_width_mode, 0, 1, None)>>,
                                   <<0>>)),
                TRUE, << >>>>
         ELSE <<active_strokes, is_drawing, << >>>>
    ELSE IF r.dragged
    THEN IF is_drawing /\ r.pos # None /\ 0 \in DOMAIN active_strokes
         THEN <<(0 :> AppendSample(active_strokes[0], r.pos[1], r.dt)), is_drawing, << >>>>
         ELSE <<active_strokes, is_drawing, << >>>>
    ELSE IF r.drag_stopped
    THEN IF is_drawing
         THEN LET remaining == [id \in DOMAIN active_strokes \ {0} |-> active_strokes[id]]
              IN  <<remaining, DOMAIN remaining # {},
                    IF 0 \in DOMAIN active_strokes
                    THEN FinalizedStroke(active_strokes[0])
                    ELSE << >>>>
         ELSE <<active_strokes, is_drawing, << >>>>
    ELSE <<active_strokes, is_drawing, << >>>>

\* the hovered block runs after the chain, on what the chain left
HoveredStrokes(r, chain) ==
    IF r.hovered /\ chain[2] /\ r.pos # None /\ 0 \in DOMAIN chain[1]
    THEN (0 :> AppendSample(chain[1][0], r.pos[1], r.dt))
    ELSE chain[1]

\* the Brush arm's writes: the chain's outcome, then the hovered block's
BrushWrites(r, chain) ==
    LET hovered_strokes == HoveredStrokes(r, chain)
    IN  /\ 0 \in DOMAIN hovered_strokes
            => Len(hovered_strokes[0].points) <= MaxStrokePoints
        /\ Len(canvas_objects) + Len(chain[3]) <= MaxObjects
        /\ active_strokes' = hovered_strokes
        /\ is_drawing' = chain[2]
        /\ canvas_objects' = canvas_objects \o chain[3]
        /\ UNCHANGED <<brush_color, brush_width, dynamic_brush_width_mode,
                       stroke_smoothing, interpolation_frequency, current_tool,
                       eraser_size, selected_object, drag_start_pos,
                       resize_anchor_hovered, rotation_anchor_hovered, resize_operation,
                       rotation_operation>>

BrushInput(r) == BrushWrites(r, BrushChain(r))

\* ---- ObjectEraser ----

\* the object eraser's test of one object
ObjectHit(object, pos, size) ==
    IF object.type = "Stroke" THEN point_intersects_stroke(pos, object, size)
    ELSE RectContains(ObjectRect(object)[1], pos)

\* a search that stops at the topmost hit object
RECURSIVE ToRemoveTopmost(_, _, _, _)
ToRemoveTopmost(objects, i, pos, size) ==
    IF i < 1 THEN << >>
    ELSE IF ObjectHit(objects[i], pos, size) THEN <<i>>
    ELSE ToRemoveTopmost(objects, i - 1, pos, size)

\* to_remove: the indices of the hit objects, topmost first
RECURSIVE ToRemoveFrom(_, _, _, _)
ToRemoveFrom(objects, i, pos, size) ==
    IF i < 1 THEN << >>
    ELSE (IF ObjectHit(objects[i], pos, size) THEN <<i>> ELSE << >>)
            \o ToRemoveFrom(objects, i - 1, pos, size)

\* Vec::remove
RemoveAt(objects, i) == SubSeq(objects, 1, i - 1) \o SubSeq(objects, i + 1, Len(objects))

RECURSIVE RemoveEach(_, _)
RemoveEach(objects, to_remove) ==
    IF to_remove = << >> THEN objects
    ELSE RemoveEach(RemoveAt(objects, Head(to_remove)), Tail(to_remove))

ObjectEraserInput(r) ==
    /\ IF (r.drag_started \/ r.clicked \/ r.dragged) /\ r.pos # None
       THEN canvas_objects' =
                RemoveEach(canvas_objects,
                           ToRemoveFrom(canvas_objects, Len(canvas_objects), r.pos[1],
                                        eraser_size))
       ELSE UNCHANGED canvas_objects
    /\ UNCHANGED <<active_strokes, is_drawing, brush_color, brush_width,
                   dynamic_brush_width_mode, stroke_smoothing, interpolation_frequency,
                   current_tool, eraser_size, selected_object, drag_start_pos,
                   resize_anchor_hovered, rotation_anchor_hovered, resize_operation,
                   rotation_operation>>

\* ---- PixelEraser ----

\* a finished accumulator becomes a sub-stroke when it holds 2 points or more
PushSubStroke(new_strokes, stroke, current_points, current_widths) ==
    IF Len(current_points) >= 2
    THEN Append(new_strokes,
                CanvasStroke(current_points, current_widths, stroke.color,
                             stroke.base_width))
    ELSE new_strokes

\* the walk over the segments of one stroke, from segment i (1-based) on
RECURSIVE CutFrom(_, _, _, _, _, _, _)
CutFrom(stroke, pos, size, i, current_points, current_widths, new_strokes) ==
    IF i > Len(stroke.points) - 1
    THEN PushSubStroke(new_strokes, stroke, current_points, current_widths)
    ELSE LET p1 == stroke.points[i]
             p2 == stroke.points[i + 1]
             segment_width == IF i <= Len(stroke.widths) THEN stroke.widths[i]
                              ELSE stroke.widths[1]
             dist == point_to_line_segment_distance(pos, p1, p2)
         IN  IF ~WithinReach(dist, size, segment_width)
             THEN CutFrom(stroke, pos, size, i + 1, Append(current_points, p2),
                          IF i + 1 <= Len(stroke.widths)
                          THEN Append(current_widths, stroke.widths[i + 1])
                          ELSE IF stroke.widths # << >>
                          THEN Append(current_widths, Last(stroke.widths))
                          ELSE current_widths,
                          new_strokes)
             ELSE CutFrom(stroke, pos, size, i + 1, << >>, << >>,
                          PushSubStroke(new_strokes, stroke, current_points,
                                        current_widths))

\* the sub-strokes one stroke is replaced by
CutStroke(stroke, pos, size) ==
    IF Len(stroke.points) < 2 THEN << >>
    ELSE CutFrom(stroke, pos, size, 1, <<stroke.points[1]>>,
                 IF stroke.widths # << >> THEN <<stroke.widths[1]>> ELSE << >>,
                 << >>)

\* new_strokes: the sub-strokes of every Stroke, in canvas order
RECURSIVE NewStrokesFrom(_, _, _, _)
NewStrokesFrom(objects, i, pos, size) ==
    IF i > Len(objects) THEN << >>
    ELSE (IF objects[i].type = "Stroke" THEN CutStroke(objects[i], pos, size)
          ELSE << >>)
            \o NewStrokesFrom(objects, i + 1, pos, size)

\* a filter that lets only the images through
IsImage(object) == object.type = "Image"

IsNotStroke(object) == object.type # "Stroke"

PixelErased(objects, pos, size) ==
    SelectSeq(objects, IsNotStroke) \o NewStrokesFrom(objects, 1, pos, size)

PixelEraserInput(r) ==
    /\ IF (r.dragged \/ r.clicked) /\ r.pos # None
       THEN /\ canvas_objects' = PixelErased(canvas_objects, r.pos[1], eraser_size)
            /\ Len(canvas_objects') <= MaxObjects
       ELSE UNCHANGED canvas_objects
    /\ UNCHANGED <<active_strokes, is_drawing, brush_color, brush_width,
                   dynamic_brush_width_mode, stroke_smoothing, interpolation_frequency,
                   current_tool, eraser_size, selected_object, drag_start_pos,
                   resize_anchor_hovered, rotation_anchor_hovered, resize_operation,
                   rotation_operation>>

\* ---- Select ----

\* the hit test of the Select frames: an Image under pos, or else a Stroke
\* within 10 pixels of pos
HitImageOrStroke(pos) ==
    \/ \E i \in 1..Len(canvas_objects) :
           /\ canvas_objects[i].type = "Image"
           /\ RectContains(RectFromMinSize(canvas_objects[i].pos, canvas_objects[i].size),
                           pos)
    \/ \E i \in 1..Len(canvas_objects) :
           /\ canvas_objects[i].type = "Stroke"
           /\ point_intersects_stroke(pos, canvas_objects[i], 10)

\* object_rect of the selected object: None without a selection, with a stale
\* index, or for a Stroke
SelectedRect(selected) ==
    IF selected # None /\ selected[1] \in 1..Len(canvas_objects)
    THEN ObjectRect(canvas_objects[selected[1]])
    ELSE None

\* the eight resize anchors in the order they are tried, in half pixels
ResizeAnchors2(rect) ==
    LET c == RectCenter2(rect)
    IN  << <<"TopLeft", <<2 * rect.min[1], 2 * rect.min[2]>> >>,
           <<"TopRight", <<2 * rect.max[1], 2 * rect.min[2]>> >>,
           <<"BottomLeft", <<2 * rect.min[1], 2 * rect.max[2]>> >>,
           <<"BottomRight", <<2 * rect.max[1], 2 * rect.max[2]>> >>,
           <<"Top", <<c[1], 2 * rect.min[2]>> >>,
           <<"Bottom", <<c[1], 2 * rect.max[2]>> >>,
           <<"Left", <<2 * rect.min[1], c[2]>> >>,
           <<"Right", <<2 * rect.max[1], c[2]>> >> >>

\* an anchor test that reaches 60 pixels from the anchor
NearAnchorWide2(pos, anchor2) == DistSq(<<2 * pos[1], 2 * pos[2]>>, anchor2) <= 120 * 120

\* pos.distance(anchor) <= 15.0, the anchor given in half pixels
NearAnchor2(pos, anchor2) == DistSq(<<2 * pos[1], 2 * pos[2]>>, anchor2) <= 30 * 30

\* found_resize_anchor: the first anchor within 15 pixels of pos
FoundResizeAnchor(rect, pos) ==
    LET anchors == ResizeAnchors2(rect)
        near == {k \in 1..Len(anchors) : NearAnchor2(pos, anchors[k][2])}
    IN  IF near = {} THEN None
        ELSE Some(anchors[CHOOSE k \in near : \A j \in near : k <= j][1])

\* the rotation anchor sits 30 pixels above the middle of the top edge
RotationAnchorNear(rect, pos) ==
    NearAnchor2(pos, <<RectCenter2(rect)[1], 2 * (rect.min[2] - 30)>>)

\* the test the drag-start search selects an object with
SelectHit(object, pos) ==
    IF object.type = "Stroke" THEN point_intersects_stroke(pos, object, 10)
    ELSE RectContains(ObjectRect(object)[1], pos)

\* a search that takes the lowest object under pos
BottommostHitFrom(i, pos) ==
    LET hits == {j \in 1..i : SelectHit(canvas_objects[j], pos)}
    IN  IF hits = {} THEN None
        ELSE Some(CHOOSE j \in hits : \A k \in hits : j <= k)

\* the topmost object under pos, searched from the end of the sequence
RECURSIVE TopmostHitFrom(_, _)
TopmostHitFrom(i, pos) ==
    IF i < 1 THEN None
    ELSE IF SelectHit(canvas_objects[i], pos) THEN Some(i)
    ELSE TopmostHitFrom(i - 1, pos)

\* the tangents of 5, 10, ..., 85 degrees, in thousandths
Tan1000 == <<87, 176, 268, 364, 466, 577, 700, 839, 1000, 1192, 1428, 1732, 2145, 2747,
             3732, 5671, 11430>>

\* the angle of (x, y), x >= 0 and y >= 0, to the axis x in degrees, rounded
\* down to a multiple of 5
FirstQuadrantDeg(y, x) ==
    IF x = 0 THEN (IF y = 0 THEN 0 ELSE 90)
    ELSE 5 * Cardinality({k \in 1..Len(Tan1000) : 1000 * y >= Tan1000[k] * x})

\* f32::atan2(y, x) in degrees, to the 5 degrees of FirstQuadrantDeg
Atan2Deg(y, x) ==
    IF x > 0 /\ y >= 0 THEN FirstQuadrantDeg(y, x)
    ELSE IF x <= 0 /\ y > 0 THEN 90 + FirstQuadrantDeg(-x, y)
    ELSE IF x < 0 /\ y = 0 THEN 180
    ELSE IF x < 0 /\ y < 0 THEN FirstQuadrantDeg(-y, -x) - 180
    ELSE IF y < 0 THEN FirstQuadrantDeg(x, -y) - 90
    ELSE 0

\* the size and position the dragged branch gives an Image under a resize
ResizedImage(img, op, delta) ==
    LET a == op.anchor
        sx == op.start_size[1]
        sy == op.start_size[2]
        grown_x == IF a \in {"TopLeft", "BottomLeft", "Left"} THEN Max(sx - delta[1], 20)
                   ELSE IF a \in {"TopRight", "BottomRight", "Right"}
                   THEN Max(sx + delta[1], 20)
                   ELSE sx
        grown_y == IF a \in {"TopLeft", "TopRight", "Top"} THEN Max(sy - delta[2], 20)
                   ELSE IF a \in {"BottomLeft", "BottomRight", "Bottom"}
                   THEN Max(sy + delta[2], 20)
                   ELSE sy
        new_pos == <<IF a \in {"TopLeft", "BottomLeft", "Left"}
                     THEN op.start_object_pos[1] + delta[1]
                     ELSE op.start_object_pos[1],
                     IF a \in {"TopLeft", "TopRight", "Top"}
                     THEN op.start_object_pos[2] + delta[2]
                     ELSE op.start_object_pos[2]>>
        num == img.aspect_ratio[1]
        den == img.aspect_ratio[2]
        \* current_aspect > target_aspect, cross-multiplied
        new_size == IF num > 0 /\ 100 * grown_x > grown_y
                    THEN IF grown_x * den > grown_y * num
                         THEN <<(grown_y * num) \div den, grown_y>>
                         ELSE <<grown_x, (grown_x * den) \div num>>
                    ELSE <<grown_x, grown_y>>
    IN  [img EXCEPT !.pos = new_pos, !.size = new_size]

ResizedText(text, op, delta) ==
    IF op.anchor \in {"TopLeft", "BottomRight"}
    THEN [text EXCEPT !.font_size = Max(op.start_size[1] + delta[1], 8)]
    ELSE text

\* a Shape resize that adds the delta to the size the shape has now
ResizedShapeFromCurrent(shape, op, delta) ==
    [shape EXCEPT !.size = Max(shape.size + delta[1], 10)]

ResizedShape(shape, op, delta) ==
    [shape EXCEPT !.size =
        IF op.anchor \in {"TopLeft", "BottomRight"} THEN Max(op.start_size[1] + delta[1], 10)
        ELSE IF op.anchor \in {"TopRight", "BottomLeft"}
        THEN Max(op.start_size[1] - delta[1], 10)
        ELSE IF op.anchor \in {"Top", "Bottom"} THEN Max(op.start_size[2] + delta[2], 10)
        ELSE Max(op.start_size[1] + delta[1], 10)]

\* the dragged branch with a live resize_operation
Resized(object, op, pos) ==
    LET delta == PosSub(pos, op.start_pos)
    IN  CASE object.type = "Image" -> ResizedImage(object, op, delta)
          [] object.type = "Text" -> ResizedText(object, op, delta)
          [] object.type = "Shape" -> ResizedShape(object, op, delta)
          [] object.type = "Stroke" -> object

\* a rotation drag that carries the object along with the pointer
RotatedMovingObject(object, op, pos) ==
    IF object.type = "Stroke" THEN object
    ELSE [object EXCEPT !.pos = PosAdd(@, PosSub(pos, op.start_pos))]

\* the dragged branch with a live rotation_operation; op.center is in half pixels
Rotated(object, op, pos) ==
    LET current_dir == PosSub(<<2 * pos[1], 2 * pos[2]>>, op.center)
        start_dir == PosSub(<<2 * op.start_pos[1], 2 * op.start_pos[2]>>, op.center)
        current_angle == Atan2Deg(current_dir[2], current_dir[1])
        start_angle == Atan2Deg(start_dir[2], start_dir[1])
        angle_delta == current_angle - start_angle
    IN  IF object.type = "Shape"
        THEN [object EXCEPT !.rotation = op.start_angle + angle_delta]
        ELSE object

RECURSIVE MovedPoints(_, _)
MovedPoints(points, delta) ==
    IF points = << >> THEN << >>
    ELSE <<PosAdd(Head(points), delta)>> \o MovedPoints(Tail(points), delta)

\* the dragged branch without an operation: the object follows the pointer
Moved(object, delta) ==
    IF object.type = "Stroke"
    THEN [object EXCEPT !.points = MovedPoints(object.points, delta)]
    ELSE [object EXCEPT !.pos = PosAdd(object.pos, delta)]

\* no object of the canvas outgrows the model
WithinExtent(objects) ==
    \A i \in 1..Len(objects) :
        /\ objects[i].type = "Image"
             => /\ objects[i].size[1] <= MaxExtent
                \* the height that goes with width MaxExtent in the picture's ratio
                /\ objects[i].size[2] * objects[i].aspect_ratio[1]
                      <= MaxExtent * objects[i].aspect_ratio[2]
        /\ objects[i].type = "Text" => objects[i].font_size <= MaxExtent
        /\ objects[i].type = "Shape"
             => objects[i].size <= MaxExtent /\ Abs(objects[i].rotation) <= MaxRotation

\* the drag_started branch, after the frame's own hit test and hover update
SelectDragStarted(pos, selected, rect) ==
    /\ drag_start_pos' = Some(pos)
    /\ IF selected # None
       THEN IF rect # None
            THEN IF resize_anchor_hovered' # None
                 THEN /\ resize_operation' =
                            Some(ResizeOperation(resize_anchor_hovered'[1], pos,
                                                 RectSize(rect[1]), rect[1].min))
                      /\ selected_object' = selected
                      /\ UNCHANGED rotation_operation
                 ELSE IF rotation_anchor_hovered'
                 THEN /\ rotation_operation' =
                            Some(RotationOperation(pos,
                                    IF canvas_objects[selected[1]].type = "Shape"
                                    THEN canvas_objects[selected[1]].rotation
                                    ELSE 0,
                                    RectCenter2(rect[1])))
                      /\ selected_object' = selected
                      /\ UNCHANGED resize_operation
                 ELSE /\ selected_object' =
                            IF RectContains(rect[1], pos) THEN selected ELSE None
                      /\ UNCHANGED <<resize_operation, rotation_operation>>
            ELSE /\ selected_object' = selected
                 /\ UNCHANGED <<resize_operation, rotation_operation>>
       ELSE /\ selected_object' = TopmostHitFrom(Len(canvas_objects), pos)
            /\ UNCHANGED <<resize_operation, rotation_operation>>
    /\ UNCHANGED canvas_objects

\* an index lookup that falls back on the last object when the index is stale
SelectedIndexClamped(selected, n) ==
    IF selected # None /\ n > 0 THEN Some(Min(selected[1], n)) ELSE None

\* canvas_objects.get_mut(selected_idx): the index of the object it yields,
\* None without a selection or with an index past the end
SelectedIndex(selected, n) ==
    IF selected # None /\ selected[1] \in 1..n THEN Some(selected[1]) ELSE None

\* the dragged branch; start_pos is drag_start_pos as the top of the frame set it
SelectDragged(pos, selected, start_pos) ==
    LET found == SelectedIndex(selected, Len(canvas_objects))
    IN  /\ selected_object' = selected
        /\ UNCHANGED <<resize_operation, rotation_operation>>
        /\ IF resize_operation # None
           THEN /\ drag_start_pos' = start_pos
                /\ canvas_objects' =
                      IF found # None
                      THEN [canvas_objects EXCEPT
                               ![found[1]] = Resized(@, resize_operation[1], pos)]
                      ELSE canvas_objects
           ELSE IF rotation_operation # None
           THEN /\ drag_start_pos' = start_pos
                /\ canvas_objects' =
                      IF found # None
                      THEN [canvas_objects EXCEPT
                               ![found[1]] = Rotated(@, rotation_operation[1], pos)]
                      ELSE canvas_objects
           ELSE IF start_pos # None /\ selected # None
           THEN /\ drag_start_pos' = Some(pos)
                /\ canvas_objects' =
                      IF found # None
                      THEN [canvas_objects EXCEPT
                               ![found[1]] = Moved(@, PosSub(pos, start_pos[1]))]
                      ELSE canvas_objects
           ELSE /\ drag_start_pos' = start_pos
                /\ UNCHANGED canvas_objects
        /\ WithinExtent(canvas_objects')

\* a click that selects the topmost object under pos
SelectClickedSelecting(pos, selected) ==
    /\ selected_object' = TopmostHitFrom(Len(canvas_objects), pos)
    /\ drag_start_pos' = Some(pos)
    /\ UNCHANGED <<canvas_objects, resize_operation, rotation_operation>>

\* the clicked branch: its hit test repeats the frame's own
SelectClicked(pos, selected) ==
    /\ selected_object' = selected
    /\ drag_start_pos' = Some(pos)
    /\ UNCHANGED <<canvas_objects, resize_operation, rotation_operation>>

\* a release that forgets the rotation only
SelectDragStoppedKeepingResize(selected) ==
    /\ selected_object' = selected
    /\ rotation_operation' = None
    /\ drag_start_pos' = None
    /\ UNCHANGED <<canvas_objects, resize_operation>>

\* the drag_stopped branch
SelectDragStopped(selected) ==
    /\ selected_object' = selected
    /\ resize_operation' = None
    /\ rotation_operation' = None
    /\ drag_start_pos' = None
    /\ UNCHANGED canvas_objects

SelectInput(r) ==
    /\ IF r.pos = None
       THEN UNCHANGED <<canvas_objects, selected_object, drag_start_pos,
                        resize_anchor_hovered, rotation_anchor_hovered, resize_operation,
                        rotation_operation>>
       ELSE LET pos == r.pos[1]
                selected == IF HitImageOrStroke(pos) THEN selected_object ELSE None
                rect == SelectedRect(selected)
            IN  /\ resize_anchor_hovered' =
                      IF rect # None THEN FoundResizeAnchor(rect[1], pos) ELSE None
                /\ rotation_anchor_hovered' =
                      IF rect # None THEN RotationAnchorNear(rect[1], pos) ELSE FALSE
                /\ IF r.drag_started THEN SelectDragStarted(pos, selected, rect)
                   ELSE IF r.clicked THEN SelectClicked(pos, selected)
                   ELSE IF r.dragged THEN SelectDragged(pos, selected, Some(pos))
                   ELSE IF r.drag_stopped THEN SelectDragStopped(selected)
                   ELSE /\ selected_object' = selected
                        /\ drag_start_pos' = Some(pos)
                        /\ UNCHANGED <<canvas_objects, resize_operation,
                                       rotation_operation>>
    /\ UNCHANGED <<active_strokes, is_drawing, brush_color, brush_width,
                   dynamic_brush_width_mode, stroke_smoothing, interpolation_frequency,
                   current_tool, eraser_size>>

\* ---- the frame ----

\* a Stroke is selected: the anchor drawing returns from render_canvas
StrokeSelected ==
    /\ selected_object # None
    /\ selected_object[1] \in 1..Len(canvas_objects)
    /\ canvas_objects[selected_object[1]].type = "Stroke"

\* a frame that runs the Select arm for every tool without an arm of its own
RenderCanvasSelectByDefault(r) ==
    IF StrokeSelected THEN UNCHANGED engine
    ELSE CASE current_tool = "ObjectEraser" -> ObjectEraserInput(r)
           [] current_tool = "PixelEraser" -> PixelEraserInput(r)
           [] current_tool = "Brush" -> BrushInput(r)
           [] OTHER -> SelectInput(r)

render_canvas(r) ==
    IF StrokeSelected THEN UNCHANGED engine
    ELSE CASE current_tool = "Select" -> SelectInput(r)
           [] current_tool = "ObjectEraser" -> ObjectEraserInput(r)
           [] current_tool = "PixelEraser" -> PixelEraserInput(r)
           [] current_tool = "Brush" -> BrushInput(r)
           [] OTHER -> UNCHANGED engine

\* The Response of a frame of a pointer gesture on the canvas.  On these frames
\* the button is down on the canvas or comes up on it, and
\* response.interact_pointer_pos() is Some: egui keeps the interact position
\* through the frame of the release.  A frame the pointer only hovers on has
\* no interact position and changes nothing of the state modelled here.
Response(pos, drag_started, clicked, dragged, drag_stopped, dt) ==
    [pos |-> Some(pos), drag_started |-> drag_started, clicked |-> clicked,
     dragged |-> dragged, drag_stopped |-> drag_stopped, hovered |-> TRUE, dt |-> dt]

\* the button goes down on the canvas: neither a click nor a drag yet
Press(pos, dt) ==
    /\ gesture.phase = "idle"
    /\ render_canvas(Response(pos, FALSE, FALSE, FALSE, FALSE, dt))
    /\ gesture' = Pressed(pos)
    /\ last' = Event("press", Some(pos))

\* the button comes up where it went down
Click(dt) ==
    /\ gesture.phase = "pressed"
    /\ render_canvas(Response(gesture.pos[1], FALSE, TRUE, FALSE, FALSE, dt))
    /\ gesture' = Idle
    /\ last' = Event("clicked", gesture.pos)

\* the pointer has moved far enough: the first frame of a drag
DragStarted(pos, dt) ==
    /\ gesture.phase = "pressed"
    /\ render_canvas(Response(pos, TRUE, FALSE, TRUE, FALSE, dt))
    /\ gesture' = Dragging
    /\ last' = Event("drag_started", Some(pos))

\* a later frame of the drag
Dragged(pos, dt) ==
    /\ gesture.phase = "dragging"
    /\ render_canvas(Response(pos, FALSE, FALSE, TRUE, FALSE, dt))
    /\ gesture' = Dragging
    /\ last' = Event("dragged", Some(pos))

\* the button comes up after a drag
DragStopped(pos, dt) ==
    /\ gesture.phase = "dragging"
    /\ render_canvas(Response(pos, FALSE, FALSE, FALSE, TRUE, dt))
    /\ gesture' = Idle
    /\ last' = Event("drag_stopped", Some(pos))

(***************************************************************************)
(* Spec: a drawing session, from the state App::new leaves.  The toolbar   *)
(* is set up before the first stroke, the tool may change at any time, and *)
(* the session is over once MaxSessionStrokes strokes are committed.       *)
(***************************************************************************)
MaxSessionStrokes == 1   \* a drawing session commits this many strokes
MaxSessionShapes == 1    \* and inserts this many shapes first

DrawPositions == {<<150, 70>>, <<150, 85>>, <<150, 100>>}
DrawTimeSteps == {20}
DrawTools == {"Brush", "Settings"}
DrawModes == {"Disabled", "SpeedBased"}

IsStroke(object) == object.type = "Stroke"

BeforeDrawing ==
    /\ SelectSeq(canvas_objects, IsStroke) = << >>
    /\ ~is_drawing
    /\ gesture.phase = "idle"

SessionOver == Len(SelectSeq(canvas_objects, IsStroke)) >= MaxSessionStrokes

Next ==
    \/ \E tool \in DrawTools : SelectTool(tool)
    \/ BeforeDrawing /\ SelectTool("Insert")
    \/ Len(canvas_objects) < MaxSessionShapes /\ InsertShape("Rectangle")
    \/ BeforeDrawing /\ \E width \in BrushWidths : SetBrushWidth(width)
    \/ BeforeDrawing /\ \E mode \in DrawModes : SetDynamicBrushWidthMode(mode)
    \/ BeforeDrawing /\ ToggleStrokeSmoothing
    \/ BeforeDrawing
         /\ \E frequency \in InterpolationFrequencies :
                SetInterpolationFrequency(frequency)
    \/ ~SessionOver /\ \E pos \in DrawPositions, dt \in DrawTimeSteps : Press(pos, dt)
    \/ \E dt \in DrawTimeSteps : Click(dt)
    \/ \E pos \in DrawPositions, dt \in DrawTimeSteps : DragStarted(pos, dt)
    \/ \E pos \in DrawPositions, dt \in DrawTimeSteps : Dragged(pos, dt)
    \/ \E pos \in DrawPositions, dt \in DrawTimeSteps : DragStopped(pos, dt)

Spec == Init /\ [][Next]_vars

(***************************************************************************)
(* SpecSelect: a selection session.  It starts from a canvas a drawing     *)
(* session leaves (empty, or holding the stroke drawn from (150, 70) to    *)
(* (150, 100) under the default settings) with the Insert tool chosen.     *)
(***************************************************************************)
MaxSelectObjects == 2    \* a selection session fills the canvas up to this

\* the Stroke a Brush drag from (150, 70) to (150, 100) commits by default
DrawnStroke ==
    LET interpolated == apply_point_interpolation(<< <<150, 70>>, <<150, 100>> >>,
                                                  <<30, 30>>, 3)
    IN  CanvasStroke(interpolated[1], interpolated[2], "WHITE", 30)

SelectPositions == {<<150, 70>>, <<150, 100>>, <<150, 150>>, <<200, 200>>, <<220, 220>>}
SelectTimeSteps == {20}
SelectTools == {"Select", "Insert"}
AspectRatios == {<<1, 1>>}

InitSelect ==
    /\ canvas_objects \in {<< >>, <<DrawnStroke>>}
    /\ active_strokes = << >>
    /\ is_drawing = FALSE
    /\ brush_color = "WHITE"
    /\ brush_width = 30
    /\ dynamic_brush_width_mode = "Disabled"
    /\ stroke_smoothing = TRUE
    /\ interpolation_frequency = 3
    /\ current_tool = "Insert"
    /\ eraser_size = 10
    /\ selected_object = None
    /\ drag_start_pos = None
    /\ resize_anchor_hovered = None
    /\ rotation_anchor_hovered = FALSE
    /\ resize_operation = None
    /\ rotation_operation = None
    /\ gesture = Idle
    /\ last = [kind |-> "tool", pos |-> None, tool |-> "Brush", sel |-> None,
               nobj |-> Len(canvas_objects)]

SelectBound == Len(canvas_objects') <= MaxSelectObjects

NextSelect ==
    \/ \E tool \in SelectTools : SelectTool(tool)
    \/ \E aspect_ratio \in AspectRatios : InsertImage(aspect_ratio) /\ SelectBound
    \/ InsertShape("Rectangle") /\ SelectBound
    \/ \E pos \in SelectPositions, dt \in SelectTimeSteps : Press(pos, dt)
    \/ \E dt \in SelectTimeSteps : Click(dt)
    \/ \E pos \in SelectPositions, dt \in SelectTimeSteps : DragStarted(pos, dt)
    \/ \E pos \in SelectPositions, dt \in SelectTimeSteps : Dragged(pos, dt)
    \/ \E pos \in SelectPositions, dt \in SelectTimeSteps : DragStopped(pos, dt)

SpecSelect == InitSelect /\ [][NextSelect]_vars

(***************************************************************************)
(* SpecEraser: an erasing session on a canvas that drawing and inserting   *)
(* left: the stroke through (150, 70), (150, 85), (150, 100) drawn with    *)
(* smoothing off and interpolation frequency 0, the default stroke from    *)
(* (150, 70) to (150, 100), and the objects the Insert tool places.        *)
(***************************************************************************)
\* the Stroke of three samples, committed with smoothing off and frequency 0
ThreePointStroke ==
    CanvasStroke(<< <<150, 70>>, <<150, 85>>, <<150, 100>> >>, <<30, 30, 30>>, "WHITE", 30)

InsertedRectangle == CanvasShape("Rectangle", <<100, 100>>, 100, "WHITE", 0)
InsertedCircle == CanvasShape("Circle", <<100, 100>>, 100, "WHITE", 0)
InsertedImage == CanvasImage(<<100, 100>>, <<300, 300>>, <<1, 1>>)
InsertedText == CanvasText("abc", <<100, 100>>, "WHITE", 16)

EraserCanvases ==
    {<<ThreePointStroke, InsertedRectangle, InsertedImage, InsertedText>>,
     <<InsertedText, InsertedCircle, DrawnStroke, InsertedRectangle>>,
     <<InsertedImage, ThreePointStroke, DrawnStroke>>}

ErasePositions == {<<150, 70>>, <<150, 85>>, <<110, 110>>, <<150, 150>>, <<300, 300>>}
EraseTimeSteps == {20}
InitEraser ==
    /\ canvas_objects \in EraserCanvases
    /\ active_strokes = << >>
    /\ is_drawing = FALSE
    /\ brush_color = "WHITE"
    /\ brush_width = 30
    /\ dynamic_brush_width_mode = "Disabled"
    /\ stroke_smoothing = FALSE
    /\ interpolation_frequency = 0
    /\ current_tool \in EraserTools
    /\ eraser_size = 10
    /\ selected_object = None
    /\ drag_start_pos = None
    /\ resize_anchor_hovered = None
    /\ rotation_anchor_hovered = FALSE
    /\ resize_operation = None
    /\ rotation_operation = None
    /\ gesture = Idle
    /\ last = [kind |-> "tool", pos |-> None, tool |-> "Insert", sel |-> None,
               nobj |-> Len(canvas_objects)]

NextEraser ==
    \/ \E tool \in EraserTools : SelectTool(tool)
    \/ \E size \in EraserSizes : SetEraserSize(size)
    \/ ClearCanvas
    \/ Erasing /\ \E pos \in ErasePositions, dt \in EraseTimeSteps : Press(pos, dt)
    \/ Erasing /\ \E dt \in EraseTimeSteps : Click(dt)
    \/ Erasing
         /\ \E pos \in ErasePositions, dt \in EraseTimeSteps : DragStarted(pos, dt)
    \/ Erasing /\ \E pos \in ErasePositions, dt \in EraseTimeSteps : Dragged(pos, dt)
    \/ Erasing /\ \E pos \in ErasePositions, dt \in EraseTimeSteps : DragStopped(pos, dt)

SpecEraser == InitEraser /\ [][NextEraser]_vars

(***************************************************************************)
(* SpecResize: a Select session on a canvas that inserting and resizing    *)
(* left: a square picture under a Rectangle, a Shape of size 50 alone, or  *)
(* a tall picture (1 : 10) alone.  The pointer visits the anchors of the   *)
(* objects of the canvas it started from.                                  *)
(***************************************************************************)
ShapeOfSize50(shape_type) == CanvasShape(shape_type, <<100, 100>>, 50, "WHITE", 0)
TallImage == CanvasImage(<<100, 100>>, <<300, 3000>>, <<1, 10>>)

\* the picture InsertImage places for a file twice as wide as it is high
WideImage == CanvasImage(<<100, 100>>, <<300, 150>>, <<2, 1>>)

ResizeCanvases ==
    {<<InsertedImage, InsertedRectangle>>, <<InsertedImage, InsertedCircle>>, <<TallImage>>,
     <<WideImage>>}
        \cup {<<ShapeOfSize50(shape_type)>> : shape_type \in CanvasShapeType}

\* the max corner of the box of the lone Shape, where its BottomRight anchor is
LoneShapeAnchor == calculate_shape_bounding_box(ShapeOfSize50(canvas_objects[1].shape_type)).max

ResizePositions ==
    IF Len(canvas_objects) = 2
    THEN {<<100, 100>>, <<150, 100>>, <<150, 150>>, <<210, 210>>}
    ELSE IF canvas_objects[1].type = "Image"
    THEN IF canvas_objects[1].aspect_ratio = TallImage.aspect_ratio
         THEN {<<400, 100>>, <<120, 100>>, <<250, 1000>>}
         ELSE {<<400, 250>>, <<110, 110>>, <<250, 175>>}
    ELSE {<<100, 100>>, LoneShapeAnchor, PosAdd(LoneShapeAnchor, <<10, 10>>)}

ResizeTimeSteps == {20}

InitResize ==
    /\ canvas_objects \in ResizeCanvases
    /\ active_strokes = << >>
    /\ is_drawing = FALSE
    /\ brush_color = "WHITE"
    /\ brush_width = 30
    /\ dynamic_brush_width_mode = "Disabled"
    /\ stroke_smoothing = TRUE
    /\ interpolation_frequency = 3
    /\ current_tool = "Select"
    /\ eraser_size = 10
    /\ selected_object = None
    /\ drag_start_pos = None
    /\ resize_anchor_hovered = None
    /\ rotation_anchor_hovered = FALSE
    /\ resize_operation = None
    /\ rotation_operation = None
    /\ gesture = Idle
    /\ last = [kind |-> "tool", pos |-> None, tool |-> "Insert", sel |-> None,
               nobj |-> Len(canvas_objects)]

NextResize ==
    \/ \E pos \in ResizePositions, dt \in ResizeTimeSteps : Press(pos, dt)
    \/ \E dt \in ResizeTimeSteps : Click(dt)
    \/ \E pos \in ResizePositions, dt \in ResizeTimeSteps : DragStarted(pos, dt)
    \/ \E pos \in ResizePositions, dt \in ResizeTimeSteps : Dragged(pos, dt)
    \/ \E pos \in ResizePositions, dt \in ResizeTimeSteps : DragStopped(pos, dt)

SpecResize == InitResize /\ [][NextResize]_vars

(***************************************************************************)
(* SpecStale: the Select arm on an AppState whose selected_object is past  *)
(* the end of canvas_objects, the state its .get and .get_mut lookups      *)
(* provide for, with an operation left behind or none.                     *)
(***************************************************************************)
StaleCanvas == <<InsertedImage, InsertedRectangle>>
StaleOffsets == {1, 2}
StalePositions == {<<150, 150>>, <<210, 210>>, <<50, 50>>}
StaleTimeSteps == {20}
LeftResize == ResizeOperation("BottomRight", <<200, 200>>, <<100, 100>>, <<100, 100>>)
LeftRotation == RotationOperation(<<150, 70>>, 0, <<300, 300>>)

InitStale ==
    /\ canvas_objects = StaleCanvas
    /\ active_strokes = << >>
    /\ is_drawing = FALSE
    /\ brush_color = "WHITE"
    /\ brush_width = 30
    /\ dynamic_brush_width_mode = "Disabled"
    /\ stroke_smoothing = TRUE
    /\ interpolation_frequency = 3
    /\ current_tool = "Select"
    /\ eraser_size = 10
    /\ selected_object \in {Some(Len(StaleCanvas) + k) : k \in StaleOffsets}
    /\ drag_start_pos = None
    /\ resize_anchor_hovered = None
    /\ rotation_anchor_hovered = FALSE
    /\ \E left \in {<<None, None>>, <<Some(LeftResize), None>>, <<None, Some(LeftRotation)>>} :
          resize_operation = left[1] /\ rotation_operation = left[2]
    /\ gesture = Idle
    /\ last = [kind |-> "tool", pos |-> None, tool |-> "Insert", sel |-> None,
               nobj |-> Len(canvas_objects)]

NextStale ==
    \/ \E pos \in StalePositions, dt \in StaleTimeSteps : Press(pos, dt)
    \/ \E dt \in StaleTimeSteps : Click(dt)
    \/ \E pos \in StalePositions, dt \in StaleTimeSteps : DragStarted(pos, dt)
    \/ \E pos \in StalePositions, dt \in StaleTimeSteps : Dragged(pos, dt)
    \/ \E pos \in StalePositions, dt \in StaleTimeSteps : DragStopped(pos, dt)

SpecStale == InitStale /\ [][NextStale]_vars

(***************************************************************************)
(* SpecBrush: a drawing session from AppState::default whose pointer       *)
(* moves by single pixels, so that samples fall on, at and beyond the      *)
(* 1-pixel gate of the sample block.                                       *)
(***************************************************************************)
BrushPositions == {<<150, 70>>, <<150, 71>>, <<150, 72>>}
BrushTimeSteps == {20}

NextBrush ==
    \/ \E tool \in DrawTools \cup {"ObjectEraser"} : SelectTool(tool)
    \/ \E color \in Colors : ChangeBrushColor(color)
    \/ ClearCanvas
    \/ BeforeDrawing /\ \E width \in BrushWidths : SetBrushWidth(width)
    \/ BeforeDrawing /\ \E mode \in DynamicBrushWidthMode : SetDynamicBrushWidthMode(mode)
    \/ ~SessionOver /\ \E pos \in BrushPositions, dt \in BrushTimeSteps : Press(pos, dt)
    \/ \E dt \in BrushTimeSteps : Click(dt)
    \/ \E pos \in BrushPositions, dt \in BrushTimeSteps : DragStarted(pos, dt)
    \/ \E pos \in BrushPositions, dt \in BrushTimeSteps : Dragged(pos, dt)
    \/ \E pos \in BrushPositions, dt \in BrushTimeSteps : DragStopped(pos, dt)

SpecBrush == Init /\ [][NextBrush]_vars

(***************************************************************************)
(* SpecTools: a session that goes back and forth between the Select tool,  *)
(* the erasers, the Insert tool and the Settings panel on a canvas holding *)
(* two strokes, with the clear-canvas button of the erasers.               *)
(***************************************************************************)
MaxToolsObjects == 3    \* insertions stop at this many objects

\* two strokes of three samples, the second one moved 65 pixels down
ToolsCanvas == <<ThreePointStroke, Moved(ThreePointStroke, <<0, 65>>)>>
ToolsTools == {"Select", "ObjectEraser", "PixelEraser", "Insert", "Settings"}
ToolsPositions == {<<150, 85>>, <<150, 150>>}
ToolsTimeSteps == {20}

InitTools ==
    /\ canvas_objects = ToolsCanvas
    /\ active_strokes = << >>
    /\ is_drawing = FALSE
    /\ brush_color = "WHITE"
    /\ brush_width = 30
    /\ dynamic_brush_width_mode = "Disabled"
    /\ stroke_smoothing = FALSE
    /\ interpolation_frequency = 0
    /\ current_tool = "Insert"
    /\ eraser_size = 10
    /\ selected_object = None
    /\ drag_start_pos = None
    /\ resize_anchor_hovered = None
    /\ rotation_anchor_hovered = FALSE
    /\ resize_operation = None
    /\ rotation_operation = None
    /\ gesture = Idle
    /\ last = [kind |-> "tool", pos |-> None, tool |-> "Brush", sel |-> None,
               nobj |-> Len(canvas_objects)]

\* clear-canvas leaves the Brush tool current; the session picks one of
\* ToolsTools before it touches the canvas again (drawing is SpecBrush's)
ToolPicked == current_tool \in ToolsTools

NextTools ==
    \/ \E tool \in ToolsTools : SelectTool(tool)
    \/ ClearCanvas
    \/ Len(canvas_objects) < MaxToolsObjects /\ InsertShape("Rectangle")
    \/ \E pos \in ToolsPositions, dt \in ToolsTimeSteps : ToolPicked /\ Press(pos, dt)
    \/ \E dt \in ToolsTimeSteps : ToolPicked /\ Click(dt)
    \/ \E pos \in ToolsPositions, dt \in ToolsTimeSteps :
          ToolPicked /\ DragStarted(pos, dt)
    \/ \E pos \in ToolsPositions, dt \in ToolsTimeSteps : ToolPicked /\ Dragged(pos, dt)
    \/ \E pos \in ToolsPositions, dt \in ToolsTimeSteps :
          ToolPicked /\ DragStopped(pos, dt)

SpecTools == InitTools /\ [][NextTools]_vars

(***************************************************************************)
(* SpecPixel: the PixelEraser on the stroke a slow drawing leaves when the *)
(* width follows the speed: three samples 15 pixels and 150 ms apart,      *)
(* drawn with base width 5.0, smoothing on and interpolation frequency 0.  *)
(* The Stroke is committed with the smoothed points and the three widths   *)
(* of the samples.                                                         *)
(***************************************************************************)
SlowDrawnStroke ==
    LET samples == << <<150, 70>>, <<150, 85>>, <<150, 100>> >>
        first == calculate_dynamic_width(50, "SpeedBased", 0, 1, None)
        second == calculate_dynamic_width(50, "SpeedBased", 1, 2, Some(100))
        third == calculate_dynamic_width(50, "SpeedBased", 2, 3, Some(100))
        interpolated == apply_point_interpolation(apply_stroke_smoothing(samples),
                                                  <<first, second, third>>, 0)
    IN  CanvasStroke(interpolated[1], interpolated[2], "WHITE", 50)

PixelPositions == {<<158, 90>>, <<150, 70>>, <<300, 300>>}

InitPixel ==
    /\ canvas_objects = <<InsertedRectangle, SlowDrawnStroke>>
    /\ active_strokes = << >>
    /\ is_drawing = FALSE
    /\ brush_color = "WHITE"
    /\ brush_width = 50
    /\ dynamic_brush_width_mode = "SpeedBased"
    /\ stroke_smoothing = TRUE
    /\ interpolation_frequency = 0
    /\ current_tool = "PixelEraser"
    /\ eraser_size = 10
    /\ selected_object = None
    /\ drag_start_pos = None
    /\ resize_anchor_hovered = None
    /\ rotation_anchor_hovered = FALSE
    /\ resize_operation = None
    /\ rotation_operation = None
    /\ gesture = Idle
    /\ last = [kind |-> "tool", pos |-> None, tool |-> "Brush", sel |-> None,
               nobj |-> Len(canvas_objects)]

NextPixel ==
    \/ \E size \in EraserSizes : SetEraserSize(size)
    \/ \E pos \in PixelPositions, dt \in EraseTimeSteps : Press(pos, dt)
    \/ \E dt \in EraseTimeSteps : Click(dt)
    \/ \E pos \in PixelPositions, dt \in EraseTimeSteps : DragStarted(pos, dt)
    \/ \E pos \in PixelPositions, dt \in EraseTimeSteps : Dragged(pos, dt)
    \/ \E pos \in PixelPositions, dt \in EraseTimeSteps : DragStopped(pos, dt)

SpecPixel == InitPixel /\ [][NextPixel]_vars

(***************************************************************************)
(* SpecUtils: calls of the functions of AppUtils (src/src/utils.rs) on     *)
(* arguments drawn from small sets.  The AppState stays as constructed;    *)
(* last records the call: the function, its arguments and what it came to. *)
(***************************************************************************)
MaxUtilPoints == 3    \* the strokes of SpecUtils have up to this many points

Call(fn, args, result) ==
    /\ last.kind = "init"    \* the functions keep no state: one call is a whole run
    /\ last' = [kind |-> "call", fn |-> fn, args |-> args, result |-> result]
    /\ UNCHANGED <<engine, gesture>>

UtilPoints == {<<0, 0>>, <<1, 0>>, <<10, 0>>, <<10, 10>>}
UtilPointSeqs == UNION {[1..n -> UtilPoints] : n \in 0..MaxUtilPoints}
UtilWidthPatterns == {<<30, 30, 30, 30>>, <<30, 50, 30, 50>>}
UtilStrokes ==
    {CanvasStroke(points, SubSeq(pattern, 1, Len(points)), "WHITE", 30) :
        points \in UtilPointSeqs, pattern \in UtilWidthPatterns}
UtilProbes == {<<0, 0>>, <<5, 4>>, <<10, 5>>, <<16, 10>>, <<20, 20>>}
UtilTolerances == {10}

CallPointIntersectsStroke ==
    \E pos \in UtilProbes, stroke \in UtilStrokes, size \in UtilTolerances :
        Call("point_intersects_stroke", <<pos, stroke, size>>,
             point_intersects_stroke_outcome(pos, stroke, size))

\* frequencies in tenths; the slider gives 0.0 to 1.0
UtilFrequencies == {-5, 0, 3, 5}

CallApplyPointInterpolation ==
    \E points \in UtilPointSeqs, pattern \in UtilWidthPatterns,
       frequency \in UtilFrequencies :
        LET widths == SubSeq(pattern, 1, Len(points))
        IN  Call("apply_point_interpolation", <<points, widths, frequency>>,
                 apply_point_interpolation(points, widths, frequency))

CallApplyStrokeSmoothing ==
    \E points \in UtilPointSeqs :
        Call("apply_stroke_smoothing", <<points>>, apply_stroke_smoothing(points))

CallPointToLineSegmentDistance ==
    \E p \in UtilProbes, a \in UtilPoints, b \in UtilPoints :
        Call("point_to_line_segment_distance", <<p, a, b>>,
             point_to_line_segment_distance(p, a, b))

\* point_index and total_points are usize, speed is Option<f32> in pixels
\* per second
UtilIndices == 0..5
UtilTotals == 0..4
UtilSpeeds == {None, Some(0), Some(250), Some(1000)}

CallCalculateDynamicWidth ==
    \E base_width \in BrushWidths, mode \in DynamicBrushWidthMode,
       point_index \in UtilIndices, total_points \in UtilTotals, speed \in UtilSpeeds :
        Call("calculate_dynamic_width",
             <<base_width, mode, point_index, total_points, speed>>,
             calculate_dynamic_width(base_width, mode, point_index, total_points, speed))

NextUtils ==
    \/ CallCalculateDynamicWidth
    \/ CallPointToLineSegmentDistance
    \/ CallPointIntersectsStroke
    \/ CallApplyPointInterpolation
    \/ CallApplyStrokeSmoothing

SpecUtils == Init /\ [][NextUtils]_vars

(***************************************************************************)
(* The properties of the tool switch and of the Select gesture, checked    *)
(* under SpecSelect unless said otherwise.                                 *)
(***************************************************************************)

\* C1: whenever the current tool changes to a different tool, no object is
\* selected afterwards
C1_ToolSwitchClearsSelection ==
    [][current_tool' # current_tool => selected_object' = None]_vars

\* a tool switch found an object selected and left none
C1_Witness ==
    /\ last.kind = "tool"
    /\ last.tool # current_tool
    /\ last.sel # None
    /\ selected_object = None

\* C2: after a drag-end frame under the Select tool, resize_operation,
\* rotation_operation and drag_start_pos are all empty
C2_DragEndClearsGesture ==
    (last.kind = "drag_stopped" /\ last.tool = "Select")
        => (resize_operation = None /\ rotation_operation = None /\ drag_start_pos = None)

\* C3: in every reachable state at most one of resize_operation and
\* rotation_operation is live
C3_AtMostOneOperation == ~(resize_operation # None /\ rotation_operation # None)

\* a rotation starts in the gesture after one that resized the selected object
C3_Witness ==
    /\ rotation_operation # None
    /\ resize_operation = None
    /\ last.kind = "drag_started"
    /\ last.sel # None
    /\ \E i \in 1..Len(canvas_objects) :
           canvas_objects[i].type = "Shape" /\ canvas_objects[i].size # 100

\* C4 (under Spec): after any change of the current tool the active-stroke
\* map is empty
C4_ToolSwitchDrainsActiveStrokes ==
    [][current_tool' # current_tool => active_strokes' = << >>]_vars

\* C5: after a change of the current tool, resize_operation and
\* rotation_operation are both empty
C5_ToolSwitchDiscardsOperations ==
    [][current_tool' # current_tool
          => (resize_operation' = None /\ rotation_operation' = None)]_vars

(***************************************************************************)
(* The properties of the Brush gesture, checked under Spec.                *)
(***************************************************************************)

\* a Brush frame of the given kind is taking place
BrushFrame(kind) == last'.kind = kind /\ last'.tool = "Brush"

\* the ActiveStroke the frame finds is one the drag-end commits
CommitExpected ==
    /\ 0 \in DOMAIN active_strokes
    /\ Len(active_strokes[0].points) >= 2
    /\ Len(active_strokes[0].widths) = Len(active_strokes[0].points)

\* C6: a Brush drag-end removes the ActiveStroke and sets is_drawing to
\* false; it appends exactly one Stroke at the end of the object sequence when
\* the ActiveStroke has at least 2 points and as many widths as points, and
\* appends nothing otherwise; the objects that existed stay as they were, in
\* their order
C6_BrushDragEnd ==
    [][BrushFrame("drag_stopped")
          => /\ active_strokes' = << >>
             /\ is_drawing' = FALSE
             /\ Len(canvas_objects') >= Len(canvas_objects)
             /\ SubSeq(canvas_objects', 1, Len(canvas_objects)) = canvas_objects
             /\ IF CommitExpected
                THEN /\ Len(canvas_objects') = Len(canvas_objects) + 1
                     /\ Last(canvas_objects').type = "Stroke"
                ELSE canvas_objects' = canvas_objects]_vars

\* a Brush drag-end appended a Stroke after the shape that was on the canvas
C6_Witness ==
    /\ last.kind = "drag_stopped"
    /\ last.tool = "Brush"
    /\ last.nobj = 1
    /\ Len(canvas_objects) = 2
    /\ canvas_objects[1] = CanvasShape("Rectangle", <<100, 100>>, 100, "WHITE", 0)
    /\ canvas_objects[2].type = "Stroke"
    /\ active_strokes = << >>
    /\ ~is_drawing

\* C7: every Stroke of the canvas has as many widths as points, or no widths
C7_WidthsMatchPoints ==
    \A i \in 1..Len(canvas_objects) :
        canvas_objects[i].type = "Stroke"
            => \/ canvas_objects[i].widths = << >>
               \/ Len(canvas_objects[i].widths) = Len(canvas_objects[i].points)

\* a Brush drag-end in Disabled mode commits a stroke of n >= 2 samples
DisabledCommit ==
    /\ BrushFrame("drag_stopped")
    /\ dynamic_brush_width_mode = "Disabled"
    /\ CommitExpected
    /\ Len(canvas_objects') = Len(canvas_objects) + 1

RECURSIVE Survivors(_, _, _)
Survivors(objects, pos, size) ==
    IF objects = << >> THEN << >>
    ELSE (IF ObjectHit(Head(objects), pos, size) THEN << >> ELSE <<Head(objects)>>)
            \o Survivors(Tail(objects), pos, size)

\* the number of objects hit at pos
HitCount(objects, pos, size) ==
    Cardinality({i \in 1..Len(objects) : ObjectHit(objects[i], pos, size)})

\* an ObjectEraser frame that erases: the one a drag starts on (the press), a
\* click, or a drag
ObjectEraserFrame ==
    /\ last'.tool = "ObjectEraser"
    /\ last'.kind \in {"drag_started", "clicked", "dragged"}

\* the canvas of the scenario C9 states: one Rectangle at (0,0) of size 20
ScenarioRectangle == CanvasShape("Rectangle", <<0, 0>>, 20, "WHITE", 0)

\* C9: an ObjectEraser press, click or drag frame at p removes exactly the
\* objects hit at p, every one of them: the length decreases by the number of
\* hit objects and the other objects remain in their order; on a canvas of one
\* Rectangle at (0,0) of size 20, p = (5,5) takes the length from 1 to 0
C9_ObjectEraserRemovesHits ==
    [][ObjectEraserFrame
          => LET p == last'.pos[1]
             IN  /\ canvas_objects' = Survivors(canvas_objects, p, eraser_size)
                 /\ Len(canvas_objects')
                        = Len(canvas_objects) - HitCount(canvas_objects, p, eraser_size)
                 /\ RemoveEach(<<ScenarioRectangle>>,
                               ToRemoveFrom(<<ScenarioRectangle>>, 1, <<5, 5>>,
                                            eraser_size)) = << >>]_vars

\* one ObjectEraser frame removed two objects or more and left others
C9_Witness ==
    /\ last.tool = "ObjectEraser"
    /\ last.kind \in {"drag_started", "clicked", "dragged"}
    /\ Len(canvas_objects) <= last.nobj - 2
    /\ Len(canvas_objects) >= 1

\* segment i of the stroke is out of the eraser's reach at pos
Survives(stroke, i, pos, size) ==
    ~WithinReach(point_to_line_segment_distance(pos, stroke.points[i],
                                                stroke.points[i + 1]),
                 size, stroke.widths[i])

\* the maximal runs a..b of surviving segments, as C10 states the cut rule
SurvivingRuns(stroke, pos, size) ==
    LET segments == 1..(Len(stroke.points) - 1)
    IN  {run \in segments \X segments :
            /\ run[1] <= run[2]
            /\ \A i \in run[1]..run[2] : Survives(stroke, i, pos, size)
            /\ run[1] - 1 \in segments => ~Survives(stroke, run[1] - 1, pos, size)
            /\ run[2] + 1 \in segments => ~Survives(stroke, run[2] + 1, pos, size)}

\* the sub-strokes C10 expects: one for every maximal run, made of the
\* run's points and their widths
ExpectedSubStrokes(stroke, pos, size) ==
    {CanvasStroke(SubSeq(stroke.points, run[1], run[2] + 1),
                  SubSeq(stroke.widths, run[1], run[2] + 1),
                  stroke.color, stroke.base_width) :
        run \in SurvivingRuns(stroke, pos, size)}

\* the Stroke objects of a canvas
StrokesOf(objects) ==
    {objects[i] : i \in {j \in 1..Len(objects) : objects[j].type = "Stroke"}}

\* C10: after a PixelEraser frame at p the strokes of the canvas are the
\* sub-strokes of the cut rule: for every original Stroke, one sub-stroke for
\* every maximal run of segments farther from p than eraser radius plus half
\* the segment width, with the run's points and widths
C10_PixelEraserCutRule ==
    [][(last'.tool = "PixelEraser" /\ last'.kind \in {"dragged", "clicked"})
          => StrokesOf(canvas_objects')
                = UNION {ExpectedSubStrokes(stroke, last'.pos[1], eraser_size) :
                            stroke \in StrokesOf(canvas_objects)}]_vars

\* the objects of a canvas that are no Stroke, in their order
NonStrokesOf(objects) ==
    LET Other(object) == ~IsStroke(object)
    IN  SelectSeq(objects, Other)

\* the kinds of frame of a pointer gesture
FrameKinds == {"press", "clicked", "drag_started", "dragged", "drag_stopped"}

\* C11: a PixelEraser frame leaves every Image, Text and Shape of the canvas
\* with the same fields and in the same relative order; only Strokes are
\* replaced
C11_PixelEraserKeepsNonStrokes ==
    [][(last'.tool = "PixelEraser" /\ last'.kind \in FrameKinds)
          => NonStrokesOf(canvas_objects') = NonStrokesOf(canvas_objects)]_vars

\* a PixelEraser frame cut strokes on a canvas with three other objects
C11_Witness ==
    /\ last.tool = "PixelEraser"
    /\ last.kind \in {"dragged", "clicked"}
    /\ Len(NonStrokesOf(canvas_objects)) = 3
    /\ Len(canvas_objects) < last.nobj

(***************************************************************************)
(* The properties of the selection, checked under SpecSelect.              *)
(***************************************************************************)

\* a Select frame of the given kind is taking place
SelectFrame(kind) == last'.kind = kind /\ last'.tool = "Select"

\* the indices of the objects hit at pos: an Image, Text or Shape by its box,
\* a Stroke by proximity within tolerance 10
HitIndices(pos) ==
    {i \in 1..Len(canvas_objects) : SelectHit(canvas_objects[i], pos)}

\* C12: on a Select drag-start with nothing selected, the selection becomes
\* the object of greatest index among those hit at the pointer position, and
\* stays empty when no object is hit
C12_DragStartSelectsTopmost ==
    [][(SelectFrame("drag_started") /\ selected_object = None)
          => LET hits == HitIndices(drag_start_pos'[1])
             IN  IF hits = {} THEN selected_object' = None
                 ELSE /\ selected_object' # None
                      /\ selected_object'[1] \in hits
                      /\ \A i \in hits : i <= selected_object'[1]]_vars

\* a drag-start with nothing selected took the upper of two objects under the
\* pointer
C12_Witness ==
    /\ last.kind = "drag_started"
    /\ last.tool = "Select"
    /\ last.sel = None
    /\ selected_object = Some(2)
    /\ drag_start_pos # None
    /\ HitIndices(drag_start_pos[1]) = {1, 2}

\* C13: a Select click never creates or changes a selection: after it
\* selected_object is its previous value or None; under the Select tool the
\* selection becomes non-empty only on a drag-start frame
C13_ClickNeverSelects ==
    [][/\ SelectFrame("clicked")
            => (selected_object' = selected_object \/ selected_object' = None)
       /\ (selected_object = None /\ selected_object' # None)
            => SelectFrame("drag_started")]_vars

\* a click over an object left the selection that was there
C13_Witness ==
    /\ last.kind = "clicked"
    /\ last.tool = "Select"
    /\ last.sel # None
    /\ selected_object = last.sel
    /\ Len(canvas_objects) = 2

\* a drag-continue frame of the Select tool follows a Select frame of the same
\* drag, with an Image, Text or Shape selected; on such frames drag_start_pos
\* holds the pointer position of the frame before, and afterwards of this one
SelectDragContinues ==
    /\ SelectFrame("dragged")
    /\ last.tool = "Select"
    /\ last.kind \in {"drag_started", "dragged"}
    /\ drag_start_pos # None
    /\ selected_object # None
    /\ selected_object' = selected_object
    /\ ~StrokeSelected

\* C14: on a drag-continue frame with an object selected and neither
\* operation active, the selected object is translated by the pointer's
\* displacement since the frame before
C14_DragTranslatesSelected ==
    [][(SelectDragContinues /\ resize_operation = None /\ rotation_operation = None)
          => LET i == selected_object[1]
                 delta == PosSub(drag_start_pos'[1], drag_start_pos[1])
             IN  canvas_objects'[i].pos = PosAdd(canvas_objects[i].pos, delta)]_vars

(***************************************************************************)
(* The properties of the resize and rotation operations, checked under     *)
(* SpecSelect.                                                             *)
(***************************************************************************)

\* a drag-continue frame applies the live ResizeOperation to the selected
\* object
ResizeContinues ==
    /\ SelectFrame("dragged")
    /\ ~StrokeSelected
    /\ resize_operation # None
    /\ selected_object' # None
    /\ selected_object'[1] \in 1..Len(canvas_objects)

\* C15: under a ResizeOperation the size and position a drag-continue frame
\* gives the selected object depend only on the drag-start snapshot and the
\* pointer position: whatever position a frame passed through, a frame at a
\* position q gives what it would have given without it
C15_ResizeFromSnapshot ==
    [][ResizeContinues
          => LET i == selected_object'[1]
             IN  \A q \in SelectPositions :
                    Resized(canvas_objects'[i], resize_operation[1], q)
                        = Resized(canvas_objects[i], resize_operation[1], q)]_vars

\* a resize passed through two sizes of a Shape
C15_Witness ==
    /\ last.kind = "dragged"
    /\ last.tool = "Select"
    /\ resize_operation # None
    /\ selected_object # None
    /\ selected_object = last.sel
    /\ selected_object[1] \in 1..Len(canvas_objects)
    /\ canvas_objects[selected_object[1]].type = "Shape"
    /\ canvas_objects[selected_object[1]].size # resize_operation[1].start_size[1]

(***************************************************************************)
(* The properties of the resize anchors, checked under SpecResize.         *)
(***************************************************************************)
\* the max corner of an Image or a Rectangle: its position plus its size
BottomRightCorner(object) ==
    IF object.type = "Image" THEN PosAdd(object.pos, object.size)
    ELSE PosAdd(object.pos, <<object.size, object.size>>)

\* op is the snapshot the drag-start frame took of object
SnapshotOf(object, op) ==
    /\ ObjectRect(object) # None
    /\ ObjectRect(object)[1].min = op.start_object_pos
    /\ RectSize(ObjectRect(object)[1]) = op.start_size

\* the first drag-continue frame of a resize that the drag-start frame
\* before it began on the selected Image or Rectangle
FreshResizeContinues ==
    /\ ResizeContinues
    /\ last.kind = "drag_started"
    /\ selected_object' = selected_object
    /\ canvas_objects[selected_object[1]].type \in {"Image", "Shape"}
    /\ SnapshotOf(canvas_objects[selected_object[1]], resize_operation[1])

\* C16: a resize from the TopLeft anchor whose total delta keeps both
\* sides above the 20-unit floor leaves the bottom-right corner of the
\* object (position + size) where the drag-start snapshot had it
\* (start_object_pos + start_size).
C16_TopLeftKeepsBottomRight ==
    [][(/\ FreshResizeContinues
        /\ resize_operation[1].anchor = "TopLeft"
        /\ LET op == resize_operation[1]
               delta == PosSub(drag_start_pos'[1], op.start_pos)
           IN  op.start_size[1] - delta[1] > 20 /\ op.start_size[2] - delta[2] > 20)
          => BottomRightCorner(canvas_objects'[selected_object[1]])
                = PosAdd(resize_operation[1].start_object_pos,
                         resize_operation[1].start_size)]_vars

\* the canvas holds one Shape of size 50 and nothing else
LoneShapeOfSize50 ==
    /\ Len(canvas_objects) = 1
    /\ canvas_objects[1].type = "Shape"
    /\ canvas_objects[1] = ShapeOfSize50(canvas_objects[1].shape_type)

\* a drag that started on the BottomRight anchor of the lone Shape continues
\* with the pointer (+10, +10) away from it
BottomRightDragBy10 ==
    /\ SelectFrame("dragged")
    /\ last.kind = "drag_started" /\ last.tool = "Select"
    /\ LoneShapeOfSize50
    /\ drag_start_pos = Some(LoneShapeAnchor)
    /\ drag_start_pos' = Some(PosAdd(LoneShapeAnchor, <<10, 10>>))

\* C17: on a canvas that holds only a Shape of size 50, of any shape kind,
\* dragging the BottomRight anchor of the Shape by (+10, +10) leaves the
\* Shape with size exactly 60.
C17_BottomRightDragGivesSize60 ==
    [][BottomRightDragBy10 => canvas_objects'[1].size = 60]_vars

\* width / height of img is its aspect_ratio, to the rounding of one division
AspectLocked(img) ==
    Abs(img.size[1] * img.aspect_ratio[2] - img.size[2] * img.aspect_ratio[1])
        < Max(img.aspect_ratio[1], img.aspect_ratio[2])

\* the size the anchor arms compute before the aspect lock
SizeBeforeLock(img, op, pos) ==
    Resized([img EXCEPT !.aspect_ratio = <<0, 1>>], op, pos).size

\* C18: after every drag-continue frame of a ResizeOperation on an Image
\* with aspect_ratio > 0, whatever the anchor and the delta, the width and
\* height of the Image are in the ratio captured at load time and neither
\* is larger than the anchor arm computed it before the lock.
C18_ResizeLocksAspect ==
    [][(/\ ResizeContinues
        /\ selected_object' = selected_object
        /\ canvas_objects[selected_object[1]].type = "Image"
        /\ canvas_objects[selected_object[1]].aspect_ratio[1] > 0)
          => LET i == selected_object[1]
                 before == SizeBeforeLock(canvas_objects[i], resize_operation[1],
                                          drag_start_pos'[1])
             IN  /\ AspectLocked(canvas_objects'[i])
                 /\ canvas_objects'[i].size[1] <= before[1]
                 /\ canvas_objects'[i].size[2] <= before[2]]_vars

(***************************************************************************)
(* The properties of the rotation operation and of the drag-start frame,   *)
(* checked under SpecSelect.                                               *)
(***************************************************************************)
\* object with its rotation field replaced
WithRotation(object, rotation) == [object EXCEPT !.rotation = rotation]

\* C19: a drag-continue frame with a RotationOperation active changes
\* nothing but the rotation field of the selected Shape: an Image, Text or
\* Stroke selection leaves the whole object sequence unchanged, and a Shape
\* keeps its position, size, kind and colour.
C19_RotationChangesOnlyRotation ==
    [][(SelectFrame("dragged") /\ rotation_operation # None)
          => /\ Len(canvas_objects') = Len(canvas_objects)
             /\ \A i \in 1..Len(canvas_objects) :
                   canvas_objects'[i] # canvas_objects[i]
                      => /\ selected_object' = Some(i)
                         /\ canvas_objects[i].type = "Shape"
                         /\ canvas_objects'[i]
                               = WithRotation(canvas_objects[i],
                                              canvas_objects'[i].rotation)]_vars

\* a rotation drag has turned the selected Shape
C19_Witness ==
    /\ last.kind = "dragged" /\ last.tool = "Select"
    /\ rotation_operation # None
    /\ selected_object # None /\ selected_object = last.sel
    /\ selected_object[1] \in 1..Len(canvas_objects)
    /\ canvas_objects[selected_object[1]].type = "Shape"
    /\ canvas_objects[selected_object[1]].rotation
          # rotation_operation[1].start_angle

\* pos is within 15 units of the point given in half pixels
Within15(pos, point2) ==
    LET dx == 2 * pos[1] - point2[1]
        dy == 2 * pos[2] - point2[2]
    IN  dx * dx + dy * dy <= 900

\* a drag-start frame that finds an Image, Text or Shape selected and, the
\* pointer being over an Image or a Stroke, leaves it selected after the
\* hit test
DragStartOnSelected ==
    /\ SelectFrame("drag_started")
    /\ ~StrokeSelected
    /\ selected_object # None
    /\ selected_object[1] \in 1..Len(canvas_objects)
    /\ HitImageOrStroke(drag_start_pos'[1])

\* C20: on a Select drag-start with an object selected, and still selected
\* after the hit test, a pointer within 15 units of one of the 8 resize
\* anchors of its bounding box starts a ResizeOperation that snapshots the
\* pointer position and the size and origin of the box; otherwise a pointer
\* within 15 units of the rotation anchor, 30 units above the top centre,
\* starts a RotationOperation with the rotation of the Shape (0 for another
\* object) as start angle and the box centre as centre; otherwise a pointer
\* inside the box starts neither operation and keeps the selection.
C20_DragStartOnSelected ==
    [][DragStartOnSelected
          => LET object == canvas_objects[selected_object[1]]
                 pos == drag_start_pos'[1]
                 box == ObjectRect(object)[1]
                 anchors == ResizeAnchors2(box)
                 near == {k \in 1..Len(anchors) : Within15(pos, anchors[k][2])}
                 top_centre2 == <<RectCenter2(box)[1], 2 * box.min[2]>>
             IN  IF near # {}
                 THEN /\ resize_operation' \in
                            {Some(ResizeOperation(anchors[k][1], pos, RectSize(box), box.min)) :
                                k \in near}
                      /\ rotation_operation' = rotation_operation
                 ELSE IF Within15(pos, PosSub(top_centre2, <<0, 60>>))
                 THEN /\ rotation_operation' =
                            Some(RotationOperation(pos,
                                    IF object.type = "Shape" THEN object.rotation ELSE 0,
                                    RectCenter2(box)))
                      /\ resize_operation' = resize_operation
                 ELSE RectContains(box, pos)
                          => /\ resize_operation' = resize_operation
                             /\ rotation_operation' = rotation_operation
                             /\ selected_object' = selected_object]_vars

\* a drag-start frame has started a RotationOperation on the Shape it found
\* selected and no ResizeOperation
C20_Witness ==
    /\ last.kind = "drag_started" /\ last.tool = "Select"
    /\ last.sel # None /\ selected_object = last.sel
    /\ resize_operation = None
    /\ rotation_operation # None
    /\ rotation_operation[1].start_pos = drag_start_pos[1]
    /\ canvas_objects[selected_object[1]].type = "Shape"

(***************************************************************************)
(* The stale selection index, checked under SpecStale.                     *)
(***************************************************************************)
\* the selection index is not less than the number of canvas objects
\* (indices are 1-based here)
StaleSelection == selected_object # None /\ selected_object[1] > Len(canvas_objects)

\* C21: with selected_object holding an index that is not less than the
\* number of canvas objects, every Select drag-continue frame (resize,
\* rotate or move) leaves the object sequence unchanged.
C21_StaleIndexIgnored ==
    [][(SelectFrame("dragged") /\ StaleSelection) => canvas_objects' = canvas_objects]_vars

\* a drag-continue frame ran its resize branch over a stale index that the
\* hit test had left in place
C21_Witness ==
    /\ last.kind = "dragged" /\ last.tool = "Select"
    /\ last.sel # None /\ last.sel[1] > last.nobj
    /\ selected_object = last.sel
    /\ resize_operation # None
    /\ drag_start_pos # None /\ drag_start_pos[1] # resize_operation[1].start_pos

(***************************************************************************)
(* The properties of the functions of AppUtils, checked under SpecUtils.   *)
(***************************************************************************)
Called(fn) == last.kind = "call" /\ last.fn = fn

\* segment i of stroke is within tolerance / 2 + w / 2 of pos, w the larger
\* of the widths at its two endpoints (widths in tenths: 20 * distance
\* against 10 * tolerance + w, squared)
SegmentWithin(pos, stroke, i, tolerance) ==
    LET d2 == point_to_line_segment_distance(pos, stroke.points[i], stroke.points[i + 1])
        w == Max(stroke.widths[i], stroke.widths[i + 1])
        reach == 10 * tolerance + w
    IN  400 * d2[1] <= reach * reach * d2[2]

\* C22: point_intersects_stroke(pos, stroke, tolerance) returns true exactly
\* when some segment of the stroke is within tolerance / 2 + w / 2 of pos,
\* and for a stroke with fewer than 2 points, a stroke with no point
\* included, it returns false without failing.
C22_PointIntersectsStroke ==
    Called("point_intersects_stroke")
        => LET pos == last.args[1]
               stroke == last.args[2]
               tolerance == last.args[3]
           IN  last.result =
                  Some(/\ Len(stroke.points) >= 2
                       /\ \E i \in 1..(Len(stroke.points) - 1) :
                              SegmentWithin(pos, stroke, i, tolerance))

\* C23: apply_point_interpolation(points, widths, f) returns points and
\* widths equal to its inputs, element for element, whenever f <= 0 or
\* points has fewer than 2 elements.
C23_InterpolationIdentity ==
    (Called("apply_point_interpolation")
        /\ (last.args[3] <= 0 \/ Len(last.args[1]) < 2))
        => last.result = <<last.args[1], last.args[2]>>

\* a call with 2 points or more and a frequency below 0 gave the input back
C23_Witness ==
    /\ Called("apply_point_interpolation")
    /\ Len(last.args[1]) >= 2 /\ last.args[1][1] # last.args[1][2]
    /\ last.args[3] < 0
    /\ last.result = <<last.args[1], last.args[2]>>

\* floor(distance(p, q) * f) for f in tenths: the largest k whose square
\* does not exceed distance^2 * f^2
FloorDistanceTimes(p, q, f) ==
    CHOOSE k \in 0..(DistSq(p, q) * f) :
        /\ 100 * k * k <= DistSq(p, q) * f * f
        /\ 100 * (k + 1) * (k + 1) > DistSq(p, q) * f * f

\* the number of points C24 expects inserted before original point i
RECURSIVE InsertedBefore(_, _, _)
InsertedBefore(points, f, i) ==
    IF i <= 1 THEN 0
    ELSE InsertedBefore(points, f, i - 1) + FloorDistanceTimes(points[i - 1], points[i], f)

\* C24: for n >= 2 points with as many widths and f > 0,
\* apply_point_interpolation inserts exactly floor(distance(p_i, p_i+1) * f)
\* points between each consecutive pair, returns as many widths as points,
\* and the original points with their original widths appear in the output
\* in order, first and last included, so that deleting the inserted entries
\* recovers the input.
C24_InterpolationKeepsOriginals ==
    (Called("apply_point_interpolation")
        /\ Len(last.args[1]) >= 2 /\ Len(last.args[2]) = Len(last.args[1])
        /\ last.args[3] > 0)
        => LET points == last.args[1]
               widths == last.args[2]
               f == last.args[3]
               n == Len(points)
           IN  /\ Len(last.result[1]) = n + InsertedBefore(points, f, n)
               /\ Len(last.result[2]) = Len(last.result[1])
               /\ \A i \in 1..n :
                     /\ last.result[1][i + InsertedBefore(points, f, i)] = points[i]
                     /\ last.result[2][i + InsertedBefore(points, f, i)] = widths[i]

\* a call on 3 distinct points with unequal widths inserted points in both
\* segments
C24_Witness ==
    /\ Called("apply_point_interpolation")
    /\ last.args[1] = << <<0, 0>>, <<10, 0>>, <<10, 10>> >>
    /\ last.args[2] = <<30, 50, 30>>
    /\ last.args[3] = 3
    /\ Len(last.result[1]) = 9

\* C25: apply_stroke_smoothing returns its input unchanged when the input
\* has fewer than 3 points; when the input has 3 points or more of which
\* the resampling at spacing 2 keeps r < 3, it returns exactly those r
\* points; otherwise it returns 4 * r points, the first of them the first
\* input point and the last of them the last resampled point.
C25_SmoothingShape ==
    Called("apply_stroke_smoothing")
        => LET points == last.args[1]
               resampled == Resample(points)
               r == Len(resampled)
           IN  IF Len(points) < 3 THEN last.result = points
               ELSE IF r < 3 THEN last.result = resampled
               ELSE /\ Len(last.result) = 4 * r
                    /\ last.result[1] = points[1]
                    /\ last.result[4 * r] = resampled[r]

\* a call on 3 points that the resampling keeps returned 12 points
C25_Witness ==
    /\ Called("apply_stroke_smoothing")
    /\ Len(last.args[1]) = 3
    /\ Len(Resample(last.args[1])) = 3
    /\ Len(last.result) = 12

SegmentSamples == 8    \* the segment is sampled at k / SegmentSamples, k = 0..SegmentSamples

\* SegmentSamples^2 times the squared distance from p to the sample
\* a + (k / SegmentSamples) * (b - a)
SampleDistSq(p, a, b, k) ==
    LET x == SegmentSamples * (p[1] - a[1]) - k * (b[1] - a[1])
        y == SegmentSamples * (p[2] - a[2]) - k * (b[2] - a[2])
    IN  x * x + y * y

\* C26: point_to_line_segment_distance(p, a, b) never exceeds the distance
\* from p to a point sampled on the segment from a to b, and when a and b
\* coincide it is the distance from p to a.  The result is the squared
\* distance as the fraction result[1] / result[2].
C26_SegmentDistanceIsMinimum ==
    Called("point_to_line_segment_distance")
        => LET p == last.args[1]
               a == last.args[2]
               b == last.args[3]
           IN  /\ \A k \in 0..SegmentSamples :
                     last.result[1] * SegmentSamples * SegmentSamples
                        <= SampleDistSq(p, a, b, k) * last.result[2]
               /\ a = b => last.result[1] = DistSq(p, a) * last.result[2]

\* a call whose nearest point is inside the segment: the result is below
\* the distance to either endpoint
C26_Witness ==
    /\ Called("point_to_line_segment_distance")
    /\ last.args[2] # last.args[3]
    /\ last.result[1] < DistSq(last.args[1], last.args[2]) * last.result[2]
    /\ last.result[1] < DistSq(last.args[1], last.args[3]) * last.result[2]

(***************************************************************************)
(* The properties of the ActiveStroke, checked under SpecBrush.            *)
(***************************************************************************)
\* consecutive points of the sequence are more than 1 unit apart
MoreThanOneApart(points) ==
    \A i \in 1..(Len(points) - 1) : DistSq(points[i], points[i + 1]) > 1

\* the frame appended one point, more than 1 unit from the last one, to the
\* ActiveStroke it found
AppendedOnce(before, after) ==
    /\ Len(after.points) = Len(before.points) + 1
    /\ SubSeq(after.points, 1, Len(before.points)) = before.points
    /\ DistSq(Last(before.points), Last(after.points)) > 1

\* C27: any two consecutive points of an ActiveStroke are more than 1 unit
\* apart; a Brush drag-continue frame, its hovered block included, either
\* leaves the ActiveStroke as it was or appends one point to it, once, and
\* that point is more than 1 unit from the last recorded one.
C27_SampleGate ==
    /\ [](\A id \in DOMAIN active_strokes : MoreThanOneApart(active_strokes[id].points))
    /\ [][(BrushFrame("dragged") /\ 0 \in DOMAIN active_strokes)
             => /\ 0 \in DOMAIN active_strokes'
                /\ \/ active_strokes'[0] = active_strokes[0]
                   \/ AppendedOnce(active_strokes[0], active_strokes'[0])]_vars

\* a drag-continue frame within 1 unit of the only point left the
\* ActiveStroke with that one point
C27_Witness ==
    /\ last.kind = "dragged" /\ last.tool = "Brush"
    /\ is_drawing
    /\ 0 \in DOMAIN active_strokes
    /\ Len(active_strokes[0].points) = 1

\* width is baseWidth * (1 - ((progress - 0.7) / 0.3) * 0.6) rounded down,
\* for progress = point_index / total: 10 * total * that value is
\* base_width * (24 * total - 20 * point_index)
TaperedWidth(width, base_width, point_index, total) ==
    /\ 10 * total * width <= base_width * (24 * total - 20 * point_index)
    /\ 10 * total * (width + 1) > base_width * (24 * total - 20 * point_index)

ParallelSamples(active_stroke) ==
    /\ Len(active_stroke.points) >= 1
    /\ Len(active_stroke.widths) = Len(active_stroke.points)
    /\ Len(active_stroke.times) = Len(active_stroke.points)

\* C29: every ActiveStroke has points, widths and times of the same
\* non-zero length and there is at most one ActiveStroke, under key 0; a
\* Brush drag-start inside the canvas creates it with exactly one point,
\* one width equal to the current brush width and the one time sample 0.
C29_ActiveStrokeShape ==
    /\ [](/\ DOMAIN active_strokes \subseteq {0}
          /\ \A id \in DOMAIN active_strokes : ParallelSamples(active_strokes[id]))
    /\ [][BrushFrame("drag_started")
             => /\ DOMAIN active_strokes' = {0}
                /\ Len(active_strokes'[0].points) = 1
                /\ RectContains(CanvasRect, active_strokes'[0].points[1])
                /\ active_strokes'[0].widths = <<brush_width>>
                /\ active_strokes'[0].times = <<0>>]_vars

\* a drag-start in BrushTip mode with the wider brush created the
\* ActiveStroke
C29_Witness ==
    /\ last.kind = "drag_started" /\ last.tool = "Brush"
    /\ dynamic_brush_width_mode = "BrushTip"
    /\ brush_width = 50
    /\ 0 \in DOMAIN active_strokes
    /\ active_strokes[0].widths = <<50>>
    /\ active_strokes[0].times = <<0>>

(***************************************************************************)
(* The selection across tools, checked under SpecTools.                    *)
(***************************************************************************)
\* C30: a non-empty selection implies that the current tool is Select and
\* that the selected index is less than the number of canvas objects; no
\* tool switch, erasure, insertion or clear-canvas leaves selected_object
\* past the end of the sequence or, while it keeps its value, at another
\* object than the one selected.
C30_SelectionStaysValid ==
    /\ [](selected_object # None
             => /\ current_tool = "Select"
                /\ selected_object[1] \in 1..Len(canvas_objects))
    /\ [][(selected_object # None /\ selected_object' = selected_object)
             => /\ Len(canvas_objects') = Len(canvas_objects)
                /\ \A i \in 1..Len(canvas_objects) :
                      IF i = selected_object[1]
                      THEN canvas_objects'[i].type = canvas_objects[i].type
                      ELSE canvas_objects'[i] = canvas_objects[i]]_vars

\* an object was selected after the canvas had lost objects to an eraser
C30_Witness ==
    /\ selected_object # None
    /\ current_tool = "Select"
    /\ Len(canvas_objects) < Len(ToolsCanvas)
    /\ canvas_objects # << >>
    /\ selected_object[1] = Len(canvas_objects)

(***************************************************************************)
(* The frames of the tools that do not edit the canvas, checked under      *)
(* SpecTools.                                                              *)
(***************************************************************************)
\* C31: a pointer frame under Select, Insert or Settings adds, removes and
\* reorders no canvas object and changes no object's variant; under Insert and
\* Settings it changes nothing of the engine state.
C31_NonEditingFrames ==
    [][(last'.kind \in FrameKinds /\ last'.tool \in {"Select", "Insert", "Settings"})
          => /\ Len(canvas_objects') = Len(canvas_objects)
             /\ \A i \in 1..Len(canvas_objects) :
                    canvas_objects'[i].type = canvas_objects[i].type
             /\ Cardinality({i \in 1..Len(canvas_objects) :
                                canvas_objects'[i] # canvas_objects[i]}) <= 1
             /\ last'.tool \in {"Insert", "Settings"} => UNCHANGED engine]_vars

\* the button went down on a stroke while the Settings panel was open
C31_Witness ==
    /\ last.kind = "press"
    /\ last.tool = "Settings"
    /\ gesture.phase = "pressed"
    /\ \E i \in 1..Len(canvas_objects) : SelectHit(canvas_objects[i], gesture.pos[1])

(***************************************************************************)
(* The per-frame hit test of the Select arm, checked under SpecSelect.     *)
(***************************************************************************)
\* a Shape or a Text is selected while a drag gesture is under way
ShapeOrTextSelectedInDrag ==
    /\ gesture.phase = "dragging"
    /\ selected_object # None
    /\ selected_object[1] \in 1..Len(canvas_objects)
    /\ canvas_objects[selected_object[1]].type \in {"Shape", "Text"}

\* C32: a Shape or Text object a Select drag-start selected stays selected
\* through every drag-continue frame of the gesture; the frame's hit test
\* clears the selection only when the pointer is over no object at all.
C32_ShapeStaysSelectedInDrag ==
    [][(SelectFrame("dragged") /\ ShapeOrTextSelectedInDrag)
          => \/ selected_object' = selected_object
             \/ /\ selected_object' = None
                /\ HitIndices(drag_start_pos'[1]) = {}]_vars

(***************************************************************************)
(* The sizes a resize gives, checked under SpecResize.                     *)
(***************************************************************************)
\* what a resize changes of an object: Image size, Text font size, Shape size
SizeOf(object) ==
    CASE object.type = "Image" -> object.size
      [] object.type = "Text" -> object.font_size
      [] object.type = "Shape" -> object.size
      [] object.type = "Stroke" -> 0

\* the first drag-continue frame of a resize, with the pointer where the drag
\* started: the object still has its size of the drag start
ResizeBackAtStart ==
    /\ SelectFrame("dragged")
    /\ last.kind = "drag_started"
    /\ resize_operation # None
    /\ selected_object # None
    /\ selected_object' = selected_object
    /\ drag_start_pos' = Some(resize_operation[1].start_pos)

\* C33: a ResizeOperation drag-continue frame whose pointer position is the
\* drag-start position leaves the selected object's size equal to its size at
\* drag start, for every anchor and every variant.
C33_ZeroDeltaKeepsSize ==
    [][ResizeBackAtStart
          => SizeOf(canvas_objects'[selected_object[1]])
                = SizeOf(canvas_objects[selected_object[1]])]_vars

\* the floor the resize code clamps an object's size to
AboveFloor(object) ==
    CASE object.type = "Image" -> object.size[1] >= 20 /\ object.size[2] >= 20
      [] object.type = "Text" -> object.font_size >= 8
      [] object.type = "Shape" -> object.size >= 10
      [] object.type = "Stroke" -> TRUE

\* C34: after every resize drag-continue frame the resized object respects
\* its floor: an Image is at least 20 wide and 20 high, also after the
\* aspect-ratio lock, a Shape has size >= 10 and a Text font size >= 8.
C34_ResizeRespectsFloor ==
    [][(SelectFrame("dragged") /\ resize_operation # None /\ selected_object' # None
            /\ selected_object'[1] \in 1..Len(canvas_objects))
          => AboveFloor(canvas_objects'[selected_object'[1]])]_vars

(***************************************************************************)
(* What a PixelEraser frame leaves of the canvas, checked under            *)
(* SpecEraser.                                                             *)
(***************************************************************************)
\* pos is out of reach of every segment of every Stroke of the canvas
OutOfReach(pos) ==
    \A stroke \in StrokesOf(canvas_objects) :
        \A i \in 1..(Len(stroke.points) - 1) : Survives(stroke, i, pos, eraser_size)

\* C35: a PixelEraser frame whose position is out of reach of every segment
\* of every Stroke leaves the canvas object sequence as it was: the same
\* objects with the same contents in the same z-order.
C35_PixelEraserMissKeepsCanvas ==
    [][(last'.tool = "PixelEraser" /\ last'.kind \in {"dragged", "clicked"}
            /\ OutOfReach(last'.pos[1]))
          => canvas_objects' = canvas_objects]_vars

(***************************************************************************)
(* The PixelEraser applied twice, checked under SpecPixel.                 *)
(***************************************************************************)
\* the number of stroke points on a canvas
RECURSIVE TotalStrokePoints(_)
TotalStrokePoints(objects) ==
    IF objects = << >> THEN 0
    ELSE (IF Head(objects).type = "Stroke" THEN Len(Head(objects).points) ELSE 0)
            + TotalStrokePoints(Tail(objects))

\* C36: the PixelEraser is idempotent at a fixed position and eraser size:
\* the same frame applied to the canvas it left yields that canvas again; and
\* no PixelEraser frame increases the number of stroke points on the canvas.
C36_PixelEraserIdempotent ==
    [][(last'.tool = "PixelEraser" /\ last'.kind \in {"dragged", "clicked"})
          => /\ PixelErased(canvas_objects', last'.pos[1], eraser_size) = canvas_objects'
             /\ TotalStrokePoints(canvas_objects') <= TotalStrokePoints(canvas_objects)]_vars

(***************************************************************************)
(* The drawing flag, checked under SpecBrush.                              *)
(***************************************************************************)
\* C37: in every reachable state is_drawing is true exactly when the map of
\* active strokes is non-empty, whatever Brush frames, colour changes, tool
\* switches and clear-canvas actions came before.
C37_DrawingIffActiveStroke == is_drawing <=> (DOMAIN active_strokes # {})

\* a colour change in the middle of a drag committed the stroke being drawn
C37_Witness ==
    /\ last.kind = "color"
    /\ gesture.phase = "dragging"
    /\ Len(canvas_objects) = last.nobj + 1
    /\ ~is_drawing

(***************************************************************************)
(* The draw of a committed Stroke, checked under Spec.                     *)
(***************************************************************************)
\* all neighbouring widths differ by less than 0.01 (widths are in tenths)
all_same_width(widths) ==
    \A i \in 1..(Len(widths) - 1) : 10 * Abs(widths[i] - widths[i + 1]) < 1

\* the 0-based indices of widths that CanvasStroke::draw reads
DrawWidthReads(stroke) ==
    IF Len(stroke.points) < 2
    THEN {}
    ELSE IF all_same_width(stroke.widths)
         THEN {0}
         ELSE UNION {{i, i + 1} : i \in 0..(Len(stroke.points) - 2)}

\* C38: for every Stroke of the canvas with at least 2 points, either all the
\* widths are equal and there is at least one, or there are at least as many
\* widths as points, so that the draw reads no width outside the sequence.
C38_DrawReadsInRange ==
    \A stroke \in StrokesOf(canvas_objects) :
        Len(stroke.points) >= 2
            => /\ \/ all_same_width(stroke.widths) /\ stroke.widths # << >>
                  \/ Len(stroke.widths) >= Len(stroke.points)
               /\ \A i \in DrawWidthReads(stroke) : i < Len(stroke.widths)

====
